---------------------------- MODULE Spec2Model ----------------------------
(***************************************************************************)
(* A model of the GPU resource / binding / scheduling layer of the         *)
(* webgpu-template repository: the WGSL type and struct layout calculator  *)
(* (src/src/wgsl.ts), the two-phase graph-coloured chain updates of the    *)
(* wormlike-chain example and of the main simulation (simulate.ts and the  *)
(* WGSL kernels), and the stable-fluids multi-pass tick.                   *)
(*                                                                         *)
(* Each part of the program has its own specification over its own         *)
(* variables; the variables of the other parts stay at their idle values.  *)
(***************************************************************************)
EXTENDS Integers, Sequences, FiniteSets, TLC

VARIABLES
    \* --- WGSL type factories (wgsl.ts: vec, mat, array) ---
    tyOp,            \* the factory call that produced tyRes and its arguments
    tyArg,           \* the elementType passed to that call
    tyRes,           \* the WgslTypeDescriptor it returned
    \* --- Struct constructor (wgsl.ts: Struct.constructor) ---
    definition,      \* ordered fields: sequence of [name, type]
    lpc,             \* position in the constructor: "loop", "total", "done"
    fieldIdx,        \* index of the next field the layout loop visits
    currentOffset,   \* let currentOffset
    maxAlignment,    \* let maxAlignment
    fieldOffsets,    \* const fieldOffsets: name -> offset
    structAlignment, \* this.structAlignment
    byteSize,        \* this.byteSize
    descSize,        \* bufferDescriptor.size: Undefined or a number
    gpuBufferSize,   \* size of the GPUBuffer passed to device.createBuffer
    mirrorLen,       \* this._buffer.byteLength
    \* --- wormlike-chain example (examples/wormlike-chain) ---
    chCount,         \* arrayLength(&nodes), NODE_COUNT on the host
    chNodes,         \* the nodes storage buffer: index -> Node
    chMirror,        \* canvas._buffer: the CPU-side mirror of Canvas.pass_id
    chDevPassId,     \* canvas.pass_id in the GPU uniform buffer
    chHost,          \* position of the host program
    chQueue,         \* commands submitted to device.queue, not yet executed
    chRun,           \* the dispatch the device is executing, with its threads
    chTick,          \* frames the host has finished
    chResets,        \* times the GUI reset button was used
    chAcc,           \* the node records each thread of the running dispatch
                     \* has loaded (r) and stored (w) so far
    chLog,           \* what the dispatches of the current two-phase
                     \* sub-sequence did: per half, pass_id seen and records stored
    \* --- main simulation (index.ts, simulate.ts, shaders/render.wgsl) ---
    simCount,        \* arrayLength(&membrane), uniforms.membraneCount
    membrane,        \* the membrane storage buffer: index -> Segment
    simPassId,       \* canvas.pass_id in the GPU canvas buffer
    simHost,         \* position of the host program
    simIter,         \* the loop counter i of the projection steps
    simTick,         \* calls of runSimulationStep that have returned
    simQueue,        \* commands given to device.queue, not yet executed
    simRun,          \* the dispatch the device is executing, with its threads
    simAcc,          \* the segment records each thread of the running
                     \* dispatch has loaded (r) and stored (w) so far
    \* --- stable-fluids example (examples/stable-fluids/index.ts) ---
    flHost,          \* position of the host program in frame()/computePass()
    flI,             \* the loop counter i of the pressure loop
    flPass,          \* the dispatches encoded in the open compute pass
    flQueue,         \* command buffers submitted, not yet taken by the device
    flSubmitted,     \* every command buffer submitted so far, in order
    flRun,           \* the command buffer the device is executing: what is left
    flExec,          \* the dispatches the device has executed of that buffer
    flTick,          \* calls of frame() that have returned
    \* --- workgroup counts of texture-sized dispatches (index.ts of the examples, render.ts) ---
    wgDim,           \* textures.size.width (or height): the texture dimension
    wgWorkgroupSize, \* WORKGROUP_SIZE: threads of one workgroup
    wgCount,         \* the entry of WORKGROUP_COUNT derived for wgDim: Undefined or a number
    \* --- game-of-life example (examples/game-of-life) ---
    lifeSize,        \* canvas.size and the size of both textures: [x, y]
    states,          \* the states texture: <<layer, x, y>> -> r
    neighbors,       \* the neighbors texture: <<layer, x, y>> -> r
    lifeInteractions,\* the interactions uniform: position and size
    lifeQueue,       \* dispatches submitted, not yet executed
    lifeRun,         \* the dispatch the device is executing, with its threads
    lifeAcc,         \* the texels each thread of the running dispatch has loaded and stored
    lifeDone,        \* the dispatches the device has finished, in order
    lifeTick,        \* calls of frame() that have returned
    \* --- ping-pong variant of the template (unnamed/part_015) ---
    frameCount,      \* frames encoded and submitted so far
    ppHost,          \* position of frame()
    ppEncoder,       \* passes encoded into the frame's command encoder
    ppQueue,         \* command buffers submitted, not yet started
    ppRun,           \* passes of the command buffer in execution
    ppContent,       \* per texture: simulation step its content holds
    ppShown,         \* simulation step drawn to the canvas
    ppLog,           \* per executed pass: textures read and written
    \* --- resource table: setupTextures, createPipelineLayout (utils.ts) ---
    txBindings,      \* bindings: the texture slots declared, in order
    txData,          \* slots for which initial data is supplied
    txSize,          \* size.width, size.height
    txLayers,        \* size.depthOrArrayLayers, per slot (optional)
    txFormat,        \* format, per slot (optional)
    txPc,            \* position in setupTextures / createPipelineLayout
    txI,             \* index of the forEach iteration
    textures,        \* textures[key]: the texture handle (optional)
    bindingLayout,   \* bindingLayout[key] (optional)
    txContent,       \* device: bytes of the texture of each slot
    txCalls,         \* device calls issued so far
    txError,         \* the error thrown, if any
    txBufferSlots,   \* BINDINGS.BUFFER: the buffer slots declared
    layoutEntries,   \* entries of the bind group layout
    groupEntries,    \* entries of the bind group
    \* --- sequences of Struct constructions (wgsl.ts) ---
    descriptors,     \* the caller's buffer descriptor objects: size (optional)
    requested,       \* per descriptor object: the record count the caller wrote
    constructed,     \* per construction: descriptor, record count, sizes
    \* --- shader creation: createShader, prependIncludes (utils.ts) ---
    shFunction,      \* "createShader" (utils.ts) or "createShaderModule"
    shCode,          \* code: the lines of the program text
    shIncludes,      \* includes: module name -> lines (optional)
    shPc,            \* position in the function
    processedCode,   \* the text handed to the device
    shWarned,        \* import statements reported by console.warn
    shMessages,      \* info.messages of the compilation
    shLogged,        \* messages written to the console
    shResult,        \* "module" returned, or "Error" thrown
    \* --- throttled animation loop of the main application (index.ts) ---
    targetFPS,       \* uniforms.targetFPS
    lastFrameTime,   \* time of the last tick executed (0 before the first)
    currentTime,     \* timestamp of the latest frame callback
    pendingCallbacks,\* frame callbacks requested and not yet run
    executedTicks,   \* per timestep() executed: its time and the interval in force
    skippedFrames,   \* frame callbacks that ran without a tick
    \* --- pointer events of setupInteractions (utils.ts) ---
    brushSize,       \* size: the brush radius kept by setupInteractions
    sign,            \* sign: set by the last press
    uniformBufferData,\* interactions data: x, y, size (a number or NaN)
    heldButtons,     \* mouse buttons held down
    touches,         \* touch points on the canvas
    \* --- workgroup counts of the wormlike-chain dispatches ---
    dpFile,          \* the host file: wormlike-chain/index.ts or unnamed/part_011
    dpNodeCount,     \* NODE_COUNT / totalNodes
    dpHost,          \* next dispatch the host issues
    dpIssued,        \* dispatches over the node buffer issued: kernel, workgroup count
    \* --- host writes into the canvas uniform buffer (index.ts, simulate.ts) ---
    actualSize,      \* actualWidth, actualHeight
    canvasData,      \* textures.canvas.data: six 32-bit words
    canvasBuffer,    \* device: the words of the canvas uniform buffer
    canvasWrites,    \* host writes so far: field, component, byte offset
    uniformWrites,   \* calls of writeUniforms so far
    \* --- struct field setter (wgsl.ts) ---
    acShape,         \* the field: a matrix (columns, rows) or an array (count)
    acElement,       \* element type: the scalar of a matrix, the element of an array
    acFieldType,     \* type descriptor of the field
    acOffset,        \* this.offsets[fieldName]
    acIndex,         \* next component index of the setter loop
    acStores,        \* DataView stores of the setter: component index, byte offset
    \* --- the render module ---
    rnPc,            \* position of timestep(): what it calls next
    rnTime,          \* time, the tick counter of timestep()
    rnState,         \* the simulation textures, as the number of simulation steps run
    intermediateTexture,\* RenderModule.intermediateTexture: tick of the last write and content
    downsampleTexture,\* RenderModule.downsampleTexture: tick of the last write and content
    rnCanvas,        \* content last drawn to the main canvas
    rnDownsampleCanvas,\* content last drawn to the downsample canvas, and the tick the drawn texture was written
    rnPasses         \* the passes submitted in the current tick

typeVars   == <<tyOp, tyArg, tyRes>>
layoutVars == <<definition, lpc, fieldIdx, currentOffset, maxAlignment,
                fieldOffsets, structAlignment, byteSize, descSize,
                gpuBufferSize, mirrorLen>>
chainVars  == <<chCount, chNodes, chMirror, chDevPassId, chHost, chQueue, chRun,
                chTick, chResets, chAcc, chLog>>
simVars    == <<simCount, membrane, simPassId, simHost, simIter, simTick,
                simQueue, simRun, simAcc>>
fluidVars  == <<flHost, flI, flPass, flQueue, flSubmitted, flRun, flExec, flTick>>
wgVars     == <<wgDim, wgWorkgroupSize, wgCount>>
lifeVars   == <<lifeSize, states, neighbors, lifeInteractions, lifeQueue, lifeRun, lifeAcc, lifeDone, lifeTick>>
ppVars     == <<frameCount, ppHost, ppEncoder, ppQueue, ppRun, ppContent, ppShown, ppLog>>
tableVars  == <<txBindings, txData, txSize, txLayers, txFormat, txPc, txI, textures, bindingLayout, txContent, txCalls, txError, txBufferSlots, layoutEntries, groupEntries>>
structVars == <<descriptors, requested, constructed>>
shaderVars == <<shFunction, shCode, shIncludes, shPc, processedCode, shWarned, shMessages, shLogged, shResult>>
loopVars   == <<targetFPS, lastFrameTime, currentTime, pendingCallbacks, executedTicks, skippedFrames>>
inputVars  == <<brushSize, sign, uniformBufferData, heldButtons, touches>>
dispatchVars == <<dpFile, dpNodeCount, dpHost, dpIssued>>
canvasVars == <<actualSize, canvasData, canvasBuffer, canvasWrites, uniformWrites>>
accessorVars == <<acShape, acElement, acFieldType, acOffset, acIndex, acStores>>
renderVars == <<rnPc, rnTime, rnState, intermediateTexture, downsampleTexture, rnCanvas, rnDownsampleCanvas, rnPasses>>
vars == <<typeVars, layoutVars, chainVars, simVars, fluidVars, wgVars, lifeVars, ppVars,
         tableVars, structVars, shaderVars, loopVars, inputVars, dispatchVars, canvasVars, accessorVars, renderVars>>

-----------------------------------------------------------------------------
(* Bounds of the model *)

MaxArrayCount == 2      \* largest element count of a generated array type
MaxArrayDepth == 2      \* deepest nesting of array-of-array in SpecTypes
MaxFields == 2          \* longest generated struct definition
MaxRecords == 2         \* largest record count requested of a Struct buffer
MaxNodes == 4           \* largest node count of the chain
ExtraThreads == 1       \* dispatched threads with idx >= arrayLength that are run
MaxTicks == 1           \* frames the host runs
MaxResets == 1          \* uses of the reset button
MaxProjectionSteps == 1 \* projection steps of one runSimulationStep the model runs
MaxFluidTicks == 2      \* frames of the stable-fluids example the model runs

-----------------------------------------------------------------------------
(* wgsl.ts: roundUp, scalar descriptors, vec, mat, array *)

\* mutant: truncating division instead of Math.ceil
RoundUpTrunc(alignment, value) == (value \div alignment) * alignment

\* Math.ceil(value / alignment) * alignment, on non-negative integers

RoundUp(alignment, value) ==
    ((value + alignment - 1) \div alignment) * alignment

Scalar(nm, size) ==
    [byteSize |-> size, alignment |-> size, name |-> nm, baseType |-> nm,
     componentCount |-> 1, baseTypeSize |-> size]

f32 == Scalar("f32", 4)
u32 == Scalar("u32", 4)
i32 == Scalar("i32", 4)
f16 == Scalar("f16", 2)
bool == Scalar("bool", 4)

ScalarTypes == {f32, u32, i32, f16, bool}

\* mutant: alignment taken as n * align(T) for every n
VecAlignByN(n, elementType) ==
    [byteSize |-> n * elementType.byteSize,
     alignment |-> n * elementType.alignment,
     name |-> "vec" \o ToString(n) \o "<" \o elementType.name \o ">",
     baseType |-> elementType.baseType,
     componentCount |-> n,
     baseTypeSize |-> elementType.baseTypeSize]

Vec(n, elementType) ==
    LET T_align == elementType.alignment
        T_size == elementType.byteSize
        alignment == IF n = 2 THEN 2 * T_align ELSE 4 * T_align
    IN [byteSize |-> n * T_size,
        alignment |-> alignment,
        name |-> "vec" \o ToString(n) \o "<" \o elementType.name \o ">",
        baseType |-> elementType.baseType,
        componentCount |-> n,
        baseTypeSize |-> elementType.baseTypeSize]

Mat(c, r, elementType) ==
    LET columnType == Vec(r, elementType)
        columnStride == RoundUp(columnType.alignment, columnType.byteSize)
    IN [byteSize |-> c * columnStride,
        alignment |-> columnType.alignment,
        name |-> "mat" \o ToString(c) \o "x" \o ToString(r) \o "<"
                   \o elementType.name \o ">",
        baseType |-> elementType.baseType,
        componentCount |-> c * r,
        baseTypeSize |-> elementType.baseTypeSize]

Array(elementType, count) ==
    LET elementStride == RoundUp(elementType.alignment, elementType.byteSize)
    IN [byteSize |-> count * elementStride,
        alignment |-> elementType.alignment,
        name |-> "array<" \o elementType.name \o ", " \o ToString(count) \o ">",
        baseType |-> elementType.baseType,
        componentCount |-> elementType.componentCount * count,
        baseTypeSize |-> elementType.baseTypeSize]

VecSizes == {2, 3, 4}

-----------------------------------------------------------------------------
(* SpecTypes: the type factories applied to every scalar and, for array,   *)
(* to every type built so far.                                             *)

\* an optional number is a set: empty for undefined, {n} for n
Undefined == {}
Some(n) == {n}
ValueOf(opt) == CHOOSE n \in opt : TRUE

NoType == [byteSize |-> 0, alignment |-> 0, name |-> "", baseType |-> "",
           componentCount |-> 0, baseTypeSize |-> 0]

NoOp == [op |-> "none", n |-> 0, c |-> 0, r |-> 0, count |-> 0, depth |-> 0]

TypesIdle == tyOp = NoOp /\ tyArg = NoType /\ tyRes = NoType

LayoutIdle ==
    /\ definition = <<>>
    /\ lpc = "idle"
    /\ fieldIdx = 0
    /\ currentOffset = 0
    /\ maxAlignment = 0
    /\ fieldOffsets = <<>>
    /\ structAlignment = 0
    /\ byteSize = 0
    /\ descSize = Undefined
    /\ gpuBufferSize = 0
    /\ mirrorLen = 0

NoRun == [kernel |-> "none", half |-> 0, todo |-> {}]

NoLog == [active |-> FALSE, done |-> FALSE, seen |-> <<>>, stored |-> <<>>]

ChainIdle ==
    /\ chCount = 0
    /\ chNodes = <<>>
    /\ chMirror = 0
    /\ chDevPassId = 0
    /\ chHost = "idle"
    /\ chQueue = <<>>
    /\ chRun = NoRun
    /\ chTick = 0
    /\ chResets = 0
    /\ chAcc = {}
    /\ chLog = NoLog

SimIdle ==
    /\ simCount = 0
    /\ membrane = <<>>
    /\ simPassId = 0
    /\ simHost = "idle"
    /\ simIter = 0
    /\ simTick = 0
    /\ simQueue = <<>>
    /\ simRun = NoRun
    /\ simAcc = {}

WorkgroupsIdle ==
    /\ wgDim = 0
    /\ wgWorkgroupSize = 0
    /\ wgCount = Undefined

LifeIdle ==
    /\ lifeSize = [x |-> 0, y |-> 0]
    /\ states = <<>>
    /\ neighbors = <<>>
    /\ lifeInteractions = [x |-> 0, y |-> 0, size |-> 0]
    /\ lifeQueue = <<>>
    /\ lifeRun = NoRun
    /\ lifeAcc = {}
    /\ lifeDone = <<>>
    /\ lifeTick = 0

PingPongIdle ==
    /\ frameCount = 0
    /\ ppHost = "idle"
    /\ ppEncoder = <<>>
    /\ ppQueue = <<>>
    /\ ppRun = <<>>
    /\ ppContent = [t \in {"textureA", "textureB"} |-> 0]
    /\ ppShown = 0
    /\ ppLog = <<>>

TableIdle ==
    /\ txBindings = <<>>
    /\ txData = {}
    /\ txSize = [width |-> 0, height |-> 0]
    /\ txLayers = <<>>
    /\ txFormat = <<>>
    /\ txPc = "idle"
    /\ txI = 0
    /\ textures = <<>>
    /\ bindingLayout = <<>>
    /\ txContent = <<>>
    /\ txCalls = <<>>
    /\ txError = "none"
    /\ txBufferSlots = <<>>
    /\ layoutEntries = <<>>
    /\ groupEntries = <<>>

StructsIdle ==
    /\ descriptors = <<>>
    /\ requested = <<>>
    /\ constructed = <<>>

ShaderIdle ==
    /\ shFunction = "none"
    /\ shCode = <<>>
    /\ shIncludes = Undefined
    /\ shPc = "idle"
    /\ processedCode = <<>>
    /\ shWarned = <<>>
    /\ shMessages = <<>>
    /\ shLogged = <<>>
    /\ shResult = "none"

LoopIdle ==
    /\ targetFPS = 0
    /\ lastFrameTime = 0
    /\ currentTime = 0
    /\ pendingCallbacks = 0
    /\ executedTicks = <<>>
    /\ skippedFrames = 0

InputIdle ==
    /\ brushSize = 0
    /\ sign = 0
    /\ uniformBufferData = <<>>
    /\ heldButtons = {}
    /\ touches = 0

DispatchIdle ==
    /\ dpFile = "none"
    /\ dpNodeCount = 0
    /\ dpHost = "idle"
    /\ dpIssued = <<>>

CanvasIdle ==
    /\ actualSize = <<>>
    /\ canvasData = <<>>
    /\ canvasBuffer = <<>>
    /\ canvasWrites = {}
    /\ uniformWrites = 0

AccessorIdle ==
    /\ acShape = <<>>
    /\ acElement = <<>>
    /\ acFieldType = <<>>
    /\ acOffset = 0
    /\ acIndex = 0
    /\ acStores = {}

RenderIdle ==
    /\ rnPc = "idle"
    /\ rnTime = 0
    /\ rnState = 0
    /\ intermediateTexture = [written |-> 0, content |-> 0]
    /\ downsampleTexture = [written |-> 0, content |-> 0]
    /\ rnCanvas = 0
    /\ rnDownsampleCanvas = [content |-> 0, written |-> 0]
    /\ rnPasses = <<>>

FluidsIdle ==
    /\ flHost = "idle"
    /\ flI = 0
    /\ flPass = <<>>
    /\ flQueue = <<>>
    /\ flSubmitted = <<>>
    /\ flRun = <<>>
    /\ flExec = <<>>
    /\ flTick = 0

TypesInit ==
    /\ tyRes \in ScalarTypes
    /\ tyArg = NoType
    /\ tyOp = [NoOp EXCEPT !.op = "scalar"]
    /\ LayoutIdle
    /\ ChainIdle
    /\ SimIdle
    /\ FluidsIdle
    /\ WorkgroupsIdle
    /\ LifeIdle
    /\ PingPongIdle
    /\ TableIdle
    /\ StructsIdle
    /\ ShaderIdle
    /\ LoopIdle
    /\ InputIdle
    /\ DispatchIdle
    /\ CanvasIdle
    /\ AccessorIdle
    /\ RenderIdle

MakeVec(n) ==
    /\ tyOp.op = "scalar"
    /\ tyArg' = tyRes
    /\ tyRes' = Vec(n, tyRes)
    /\ tyOp' = [NoOp EXCEPT !.op = "vec", !.n = n]

MakeMat(c, r) ==
    /\ tyOp.op = "scalar"
    /\ tyArg' = tyRes
    /\ tyRes' = Mat(c, r, tyRes)
    /\ tyOp' = [NoOp EXCEPT !.op = "mat", !.c = c, !.r = r]

MakeArray(count) ==
    /\ tyOp.op # "none"
    /\ tyOp.depth < MaxArrayDepth
    /\ tyArg' = tyRes
    /\ tyRes' = Array(tyRes, count)
    /\ tyOp' = [NoOp EXCEPT !.op = "array", !.count = count,
                            !.depth = tyOp.depth + 1]

TypesNext ==
    /\ \/ \E n \in VecSizes : MakeVec(n)
       \/ \E c \in VecSizes, r \in VecSizes : MakeMat(c, r)
       \/ \E count \in 1..MaxArrayCount : MakeArray(count)
    /\ UNCHANGED <<layoutVars, chainVars, simVars, fluidVars, wgVars, lifeVars, ppVars, tableVars,
                   structVars, shaderVars, loopVars, inputVars, dispatchVars, canvasVars, accessorVars, renderVars>>

SpecTypes == TypesInit /\ [][TypesNext]_vars

-----------------------------------------------------------------------------
(* SpecLayout: the Struct constructor run on generated definitions and on  *)
(* the two reference definitions of the example-usage block of wgsl.ts.    *)

\* the scalar bases over which composite field types are generated
LayoutBases == {f32, f16}

CompositeTypes ==
    {Vec(n, t) : n \in VecSizes, t \in LayoutBases}
        \cup {Mat(c, c, t) : c \in VecSizes, t \in LayoutBases}

StructFieldTypes ==
    ScalarTypes \cup CompositeTypes
        \cup {Array(e, k) : e \in LayoutBases \cup CompositeTypes,
                            k \in 1..MaxArrayCount}

FieldNames == <<"f1", "f2", "f3", "f4", "f5", "f6">>

\* wgsl.ts example usage: interactions
RefInteractions ==
    <<[name |-> "position", type |-> Vec(2, f32)],
      [name |-> "size", type |-> f32]>>

\* wgsl.ts example usage: sceneUniforms
RefSceneUniforms ==
    <<[name |-> "worldMatrix", type |-> Mat(4, 4, f32)],
      [name |-> "cameraPos", type |-> Vec(3, f32)],
      [name |-> "time", type |-> f32],
      [name |-> "lights", type |-> Array(Vec(4, f32), 4)]>>

LayoutInit ==
    /\ \/ definition = <<>> /\ lpc = "define"
       \/ definition \in {RefInteractions, RefSceneUniforms} /\ lpc = "loop"
    /\ fieldIdx = 1
    /\ currentOffset = 0
    /\ maxAlignment = 0
    /\ fieldOffsets = <<>>
    /\ structAlignment = 0
    /\ byteSize = 0
    /\ descSize = Undefined
    /\ gpuBufferSize = 0
    /\ mirrorLen = 0
    /\ TypesIdle
    /\ ChainIdle
    /\ SimIdle
    /\ FluidsIdle
    /\ WorkgroupsIdle
    /\ LifeIdle
    /\ PingPongIdle
    /\ TableIdle
    /\ StructsIdle
    /\ ShaderIdle
    /\ LoopIdle
    /\ InputIdle
    /\ DispatchIdle
    /\ CanvasIdle
    /\ AccessorIdle
    /\ RenderIdle

\* the caller writes one more field of the definition object it will pass
DefineField(t) ==
    /\ lpc = "define"
    /\ Len(definition) < MaxFields
    /\ definition' = Append(definition,
                            [name |-> FieldNames[Len(definition) + 1], type |-> t])
    /\ UNCHANGED <<lpc, fieldIdx, currentOffset, maxAlignment, fieldOffsets,
                   structAlignment, byteSize, descSize, gpuBufferSize, mirrorLen>>

\* new Struct(device, bufferDescriptor, definition) is entered
EnterConstructor ==
    /\ lpc = "define"
    /\ lpc' = "loop"
    /\ UNCHANGED <<definition, fieldIdx, currentOffset, maxAlignment, fieldOffsets,
                   structAlignment, byteSize, descSize, gpuBufferSize, mirrorLen>>

\* one iteration of `for (const fieldName of fields)`
LayoutStep ==
    /\ lpc = "loop"
    /\ fieldIdx <= Len(definition)
    /\ LET fieldName == definition[fieldIdx].name
           fieldType == definition[fieldIdx].type
           aligned == RoundUp(fieldType.alignment, currentOffset)
       IN /\ maxAlignment' = IF fieldType.alignment > maxAlignment
                                THEN fieldType.alignment ELSE maxAlignment
          /\ fieldOffsets' = fieldOffsets @@ (fieldName :> aligned)
          /\ currentOffset' = aligned + fieldType.byteSize
    /\ fieldIdx' = fieldIdx + 1
    /\ UNCHANGED <<definition, lpc, structAlignment, byteSize, descSize,
                   gpuBufferSize, mirrorLen>>

\* mutant: the total size without the trailing padding
StructByteSizeUnpadded(alignment, offset) == offset

\* this.byteSize = roundUp(this.structAlignment, currentOffset)

StructByteSize(alignment, offset) == RoundUp(alignment, offset)

\* the constructor after the loop: total size, GPU buffer, CPU mirror;
\* `size` is the bufferDescriptor.size the caller passed
LayoutFinish(size) ==
    /\ lpc = "loop"
    /\ fieldIdx > Len(definition)
    /\ LET sa == IF maxAlignment = 0 THEN 1 ELSE maxAlignment
           bs == StructByteSize(sa, currentOffset)
           records == IF size = Undefined THEN 1 ELSE ValueOf(size)
       IN /\ structAlignment' = sa
          /\ byteSize' = bs
          /\ descSize' = Some(records * bs)
          /\ gpuBufferSize' = records * bs
          /\ mirrorLen' = bs
    /\ lpc' = "done"
    /\ UNCHANGED <<definition, fieldIdx, currentOffset, maxAlignment, fieldOffsets>>

LayoutNext ==
    /\ \/ \E t \in StructFieldTypes : DefineField(t)
       \/ EnterConstructor
       \/ LayoutStep
       \/ \E size \in {Undefined} \cup {Some(n) : n \in 1..MaxRecords} :
            LayoutFinish(size)
    /\ UNCHANGED <<typeVars, chainVars, simVars, fluidVars, wgVars, lifeVars, ppVars, tableVars,
                   structVars, shaderVars, loopVars, inputVars, dispatchVars, canvasVars, accessorVars, renderVars>>

SpecLayout == LayoutInit /\ [][LayoutNext]_vars

-----------------------------------------------------------------------------
(* SpecChain: the wormlike-chain example.  The host (index.ts) submits     *)
(* command buffers to the device queue; the device executes them in order, *)
(* the threads of one dispatch in any order.  Node positions and forces    *)
(* are not carried here: what is recorded of a position store is which     *)
(* record it went to (chLog.stored).                                       *)

\* nodes.wgsl
is_disconnected(node) == node.tail = node.id /\ node.head = node.id
has_head(node) == node.head # node.id
has_tail(node) == node.tail # node.id

\* a storage buffer is zero-filled when created
ZeroNode == [id |-> 0, pass_id |-> 0, tail |-> 0, head |-> 0]

\* the global invocation ids the model runs for a dispatch over the nodes
Threads(count) == 0..(count + ExtraThreads - 1)

\* initialize_chains: nodes[idx].pass_id = idx % 2
InitPassId(idx) == idx % 2

\* initialize_chains up to the cut: the stores of thread idx to its own record
InitOwn(nodes, count, idx) ==
    IF idx >= count THEN nodes
    ELSE [nodes EXCEPT ![idx] = [id |-> idx,
                                 pass_id |-> InitPassId(idx),
                                 tail |-> (idx + count - 1) % count,
                                 head |-> (idx + count + 1) % count]]

\* initialize_chains, `if (idx == 0)`: cut the chain at idx 0
InitCut(nodes, count, idx) ==
    [i \in DOMAIN nodes |->
        IF i = idx THEN [nodes[i] EXCEPT !.head = idx]
        ELSE IF i = idx + 1 THEN [nodes[i] EXCEPT !.tail = idx + 1]
        ELSE nodes[i]]

\* line_constraint_update: the thread passes the early return
LcActive(nodes, count, passId, idx) ==
    /\ idx < count
    /\ nodes[idx].pass_id = passId
    /\ ~is_disconnected(nodes[idx])

\* `let node = nodes[idx]` with idx >= arrayLength(nodes) is an out-of-bounds
\* load: it yields the zero value (no record is loaded) or the value of any
\* record of the buffer
OobLoads(count) == {{}} \cup {{i} : i \in 0..(count - 1)}

\* node records a thread of line_constraint_update loads; oob is what its
\* load of nodes[idx] resolves to when idx is out of bounds
LcReads(nodes, count, passId, idx, oob) ==
    IF idx >= count THEN oob
    ELSE {idx}
         \cup (IF LcActive(nodes, count, passId, idx)
               THEN (IF has_tail(nodes[idx]) THEN {nodes[idx].tail} ELSE {})
                    \cup (IF has_head(nodes[idx]) THEN {nodes[idx].head} ELSE {})
               ELSE {})

\* node records a thread of line_constraint_update stores to
LcWrites(nodes, count, passId, idx) ==
    IF LcActive(nodes, count, passId, idx) THEN {idx} ELSE {}

\* node records a thread of curvature_update loads (biharmonic_operator)
CurvReads(nodes, count, idx) ==
    IF idx >= count THEN {}
    ELSE LET node == nodes[idx]
             tail == nodes[node.tail]
             head == nodes[node.head]
         IN {idx}
            \cup (IF is_disconnected(node) THEN {}
                  ELSE {node.tail, node.head}
                       \cup (IF is_disconnected(tail) \/ is_disconnected(head)
                             THEN {} ELSE {tail.tail, head.head}))

\* curvature_update: nodes[idx].position += ...
CurvWrites(nodes, count, idx) == IF idx >= count THEN {} ELSE {idx}

Dispatch(kernel, half) == [kernel |-> kernel, half |-> half]

\* the Struct field setter: it stores the value in the CPU-side mirror only;
\* the commands it puts on the device queue are none
SetterUploads(value) == <<>>

ChainInit ==
    /\ chCount \in 2..MaxNodes
    /\ chNodes = [i \in 0..(chCount - 1) |-> ZeroNode]
    /\ chMirror = 0
    /\ chDevPassId = 0
    /\ chHost = "start"
    /\ chQueue = <<>>
    /\ chRun = NoRun
    /\ chTick = 0
    /\ chResets = 0
    /\ chAcc = {}
    /\ chLog = NoLog
    /\ TypesIdle
    /\ LayoutIdle
    /\ SimIdle
    /\ FluidsIdle
    /\ WorkgroupsIdle
    /\ LifeIdle
    /\ PingPongIdle
    /\ TableIdle
    /\ StructsIdle
    /\ ShaderIdle
    /\ LoopIdle
    /\ InputIdle
    /\ DispatchIdle
    /\ CanvasIdle
    /\ AccessorIdle
    /\ RenderIdle

\* submit_initialization(), called once from main()
SubmitInitialization ==
    /\ chHost = "start"
    /\ chQueue' = Append(chQueue, Dispatch("initialize_chains", 0))
    /\ chHost' = "frame"
    /\ UNCHANGED <<chCount, chNodes, chMirror, chDevPassId, chRun, chTick,
                   chResets, chAcc, chLog>>

\* the GUI reset button: submit_initialization() between two frames
ResetClicked ==
    /\ chHost = "frame"
    /\ chResets < MaxResets
    /\ chQueue' = Append(chQueue, Dispatch("initialize_chains", 0))
    /\ chResets' = chResets + 1
    /\ UNCHANGED <<chCount, chNodes, chMirror, chDevPassId, chHost, chRun,
                   chTick, chAcc, chLog>>

\* computePass, one iteration of [0, 1].forEach: canvas.pass_id = passId,
\* then the line_constraint_updates dispatch is submitted
HostHalf(passId) ==
    /\ chHost = (IF passId = 0 THEN "frame" ELSE "half1")
    /\ passId = 0 => chTick < MaxTicks
    /\ chMirror' = passId
    /\ chQueue' = chQueue \o SetterUploads(passId)
                     \o <<Dispatch("line_constraint_updates", passId)>>
    /\ chHost' = (IF passId = 0 THEN "half1" ELSE "curvature")
    /\ UNCHANGED <<chCount, chNodes, chDevPassId, chRun, chTick, chResets,
                   chAcc, chLog>>

\* computePass: one of the three blocks after the two halves
HostSubmit(at, kernel, next) ==
    /\ chHost = at
    /\ chQueue' = Append(chQueue, Dispatch(kernel, 0))
    /\ chHost' = next
    /\ UNCHANGED <<chCount, chNodes, chMirror, chDevPassId, chRun, chTick,
                   chResets, chAcc, chLog>>

\* frame(): computePass has returned; renderPass (no compute dispatch, no
\* access to the node buffer), then requestAnimationFrame(frame)
HostRender ==
    /\ chHost = "render"
    /\ chHost' = "frame"
    /\ chTick' = chTick + 1
    /\ UNCHANGED <<chCount, chNodes, chMirror, chDevPassId, chQueue, chRun,
                   chResets, chAcc, chLog>>

\* the threads of a dispatch that touch the node buffer, each with the steps
\* it still has to make
ThreadSteps(kernel, count) ==
    CASE kernel = "initialize_chains" ->
            {<<i, "own">> : i \in Threads(count)} \cup {<<0, "cut">>}
      [] kernel \in {"line_constraint_updates", "curvature_updates", "draw"} ->
            {<<i, "run">> : i \in Threads(count)}
      [] OTHER -> {}

Access(idx, loads, stores) == [t |-> idx, r |-> loads, w |-> stores]

\* the device takes the next command buffer of the queue
DevStart ==
    /\ chRun.kernel = "none"
    /\ chQueue # <<>>
    /\ LET cmd == Head(chQueue)
       IN /\ chRun' = [kernel |-> cmd.kernel, half |-> cmd.half,
                        todo |-> ThreadSteps(cmd.kernel, chCount)]
          /\ chLog' =
                IF cmd.kernel # "line_constraint_updates" THEN chLog
                ELSE IF cmd.half = 0
                THEN [active |-> TRUE, done |-> FALSE,
                      seen |-> (0 :> chDevPassId), stored |-> (0 :> {})]
                ELSE [chLog EXCEPT !.seen = chLog.seen @@ (1 :> chDevPassId),
                                   !.stored = chLog.stored @@ (1 :> {})]
    /\ chQueue' = Tail(chQueue)
    /\ UNCHANGED <<chCount, chNodes, chMirror, chDevPassId, chHost, chTick,
                   chResets, chAcc>>

\* one thread of initialize_chains makes its next step
DevInitThread(idx, step) ==
    /\ chRun.kernel = "initialize_chains"
    /\ <<idx, step>> \in chRun.todo
    /\ step = "cut" => <<idx, "own">> \notin chRun.todo
    /\ chNodes' = IF step = "own" THEN InitOwn(chNodes, chCount, idx)
                                  ELSE InitCut(chNodes, chCount, idx)
    /\ chAcc' = chAcc \cup
                 {Access(idx, {}, IF idx >= chCount THEN {}
                                  ELSE IF step = "own" THEN {idx}
                                  ELSE {idx, idx + 1})}
    /\ chRun' = [chRun EXCEPT !.todo = @ \ {<<idx, step>>}]
    /\ UNCHANGED <<chCount, chMirror, chDevPassId, chHost, chQueue, chTick,
                   chResets, chLog>>

\* one thread of line_constraint_updates runs
DevLineThread(idx) ==
    /\ chRun.kernel = "line_constraint_updates"
    /\ <<idx, "run">> \in chRun.todo
    /\ \E oob \in (IF idx >= chCount THEN OobLoads(chCount) ELSE {{}}) :
          chAcc' = chAcc \cup
                   {Access(idx, LcReads(chNodes, chCount, chDevPassId, idx, oob),
                                LcWrites(chNodes, chCount, chDevPassId, idx))}
    /\ chLog' = [chLog EXCEPT !.stored[chRun.half] =
                      @ \cup LcWrites(chNodes, chCount, chDevPassId, idx)]
    /\ chRun' = [chRun EXCEPT !.todo = @ \ {<<idx, "run">>}]
    /\ UNCHANGED <<chCount, chNodes, chMirror, chDevPassId, chHost, chQueue,
                   chTick, chResets>>

\* one thread of curvature_updates runs
DevCurvatureThread(idx) ==
    /\ chRun.kernel = "curvature_updates"
    /\ <<idx, "run">> \in chRun.todo
    /\ chAcc' = chAcc \cup {Access(idx, CurvReads(chNodes, chCount, idx),
                                         CurvWrites(chNodes, chCount, idx))}
    /\ chRun' = [chRun EXCEPT !.todo = @ \ {<<idx, "run">>}]
    /\ UNCHANGED <<chCount, chNodes, chMirror, chDevPassId, chHost, chQueue,
                   chTick, chResets, chLog>>

\* one thread of draw runs: it loads its own node record and stores to the
\* render texture only
DevDrawThread(idx) ==
    /\ chRun.kernel = "draw"
    /\ <<idx, "run">> \in chRun.todo
    /\ chAcc' = chAcc \cup
                 {Access(idx, IF idx >= chCount THEN {} ELSE {idx}, {})}
    /\ chRun' = [chRun EXCEPT !.todo = @ \ {<<idx, "run">>}]
    /\ UNCHANGED <<chCount, chNodes, chMirror, chDevPassId, chHost, chQueue,
                   chTick, chResets, chLog>>

\* the dispatch has run all its threads
DevFinish ==
    /\ chRun.kernel # "none"
    /\ chRun.todo = {}
    /\ chLog' = IF chRun.kernel = "line_constraint_updates" /\ chRun.half = 1
                THEN [chLog EXCEPT !.done = TRUE] ELSE chLog
    /\ chRun' = NoRun
    /\ chAcc' = {}
    /\ UNCHANGED <<chCount, chNodes, chMirror, chDevPassId, chHost, chQueue,
                   chTick, chResets>>

ChainNext ==
    /\ \/ SubmitInitialization
       \/ ResetClicked
       \/ \E passId \in {0, 1} : HostHalf(passId)
       \/ HostSubmit("curvature", "curvature_updates", "clear")
       \/ HostSubmit("clear", "clear", "draw")
       \/ HostSubmit("draw", "draw", "render")
       \/ HostRender
       \/ DevStart
       \/ \E idx \in Threads(chCount), step \in {"own", "cut"} :
             DevInitThread(idx, step)
       \/ \E idx \in Threads(chCount) : DevLineThread(idx)
       \/ \E idx \in Threads(chCount) : DevCurvatureThread(idx)
       \/ \E idx \in Threads(chCount) : DevDrawThread(idx)
       \/ DevFinish
    /\ UNCHANGED <<typeVars, layoutVars, simVars, fluidVars, wgVars, lifeVars, ppVars, tableVars,
                   structVars, shaderVars, loopVars, inputVars, dispatchVars, canvasVars, accessorVars, renderVars>>

SpecChain == ChainInit /\ [][ChainNext]_vars

-----------------------------------------------------------------------------
(* Claims on the type factories and the struct layout *)

\* the least multiple of a that is >= v, stated without roundUp
LeastMultipleAtLeast(a, v) ==
    CHOOSE m \in v..(v + a) : m % a = 0 /\ \A k \in v..(m - 1) : k % a # 0

MaxOf(S) == CHOOSE m \in S : \A x \in S : x <= m

FieldRange(i) ==
    LET off == fieldOffsets[definition[i].name]
    IN off..(off + definition[i].type.byteSize - 1)

\* C1: in a constructed Struct every field's offset is a multiple of the
\* field's alignment, no two fields' byte ranges [offset, offset+byteSize)
\* overlap, and the struct's byteSize is a multiple of the struct alignment,
\* which is the maximum field alignment.
C1_LayoutInvariant ==
    lpc = "done" =>
        /\ \A i \in 1..Len(definition) :
              fieldOffsets[definition[i].name] % definition[i].type.alignment = 0
        /\ \A i, j \in 1..Len(definition) :
              i # j => FieldRange(i) \cap FieldRange(j) = {}
        /\ byteSize % structAlignment = 0
        /\ Len(definition) > 0 =>
              structAlignment =
                  MaxOf({definition[i].type.alignment : i \in 1..Len(definition)})

\* a finished layout with padding between two fields and padding at the end
C1_Witness ==
    /\ lpc = "done"
    /\ Len(definition) = 2
    /\ fieldOffsets[definition[2].name] > definition[1].type.byteSize
    /\ byteSize > currentOffset

\* C2: vec2<T> has alignment 2 x align(T), vec3<T> and vec4<T> have alignment
\* 4 x align(T), vecN<T> has size N x size(T); a CxR matrix has the alignment
\* of its column vector vecR<T> and size C x (column size rounded up to the
\* column alignment); an array of N elements has the element's alignment and
\* size N x (element size rounded up to the element alignment).
C2_TypeRules ==
    /\ tyOp.op = "vec" =>
          /\ tyRes.alignment = (IF tyOp.n = 2 THEN 2 ELSE 4) * tyArg.alignment
          /\ tyRes.byteSize = tyOp.n * tyArg.byteSize
    /\ tyOp.op = "mat" =>
          LET colAlign == (IF tyOp.r = 2 THEN 2 ELSE 4) * tyArg.alignment
              colSize == tyOp.r * tyArg.byteSize
          IN /\ tyRes.alignment = colAlign
             /\ tyRes.byteSize = tyOp.c * LeastMultipleAtLeast(colAlign, colSize)
    /\ tyOp.op = "array" =>
          /\ tyRes.alignment = tyArg.alignment
          /\ tyRes.byteSize =
                tyOp.count * LeastMultipleAtLeast(tyArg.alignment, tyArg.byteSize)

\* an array whose element is a three-row matrix column type padded to its
\* alignment: array<mat3x3<f16>, 2>
C2_Witness ==
    /\ tyOp.op = "array"
    /\ tyOp.count = 2
    /\ tyArg = Mat(3, 3, f16)
    /\ tyArg.byteSize = 24
    /\ tyArg.alignment = 8

\* C3: {position: vec2<f32>, size: f32} is laid out at offsets 0 and 8 with
\* total size 16; {worldMatrix: mat4x4<f32>, cameraPos: vec3<f32>, time: f32,
\* lights: array<vec4<f32>, 4>} at offsets 0, 64, 76, 80 with total size 144.
C3_ReferenceLayouts ==
    lpc = "done" =>
        /\ definition = RefInteractions =>
              /\ fieldOffsets = ("position" :> 0 @@ "size" :> 8)
              /\ byteSize = 16
        /\ definition = RefSceneUniforms =>
              /\ fieldOffsets = ("worldMatrix" :> 0 @@ "cameraPos" :> 64
                                  @@ "time" :> 76 @@ "lights" :> 80)
              /\ byteSize = 144

C3_Witness ==
    /\ lpc = "done"
    /\ definition = RefSceneUniforms
    /\ byteSize = 144


-----------------------------------------------------------------------------
(* Claims on the wormlike-chain two-phase update *)

Ring == 0..(chCount - 1)
AlternatelyColoured == \A i \in Ring : chNodes[i].pass_id = i % 2

Linked(nodes, i, j) ==
    i # j /\ (nodes[i].head = j \/ nodes[i].tail = j)

ProperlyColoured(nodes) ==
    \A i, j \in DOMAIN nodes :
        Linked(nodes, i, j) => nodes[i].pass_id # nodes[j].pass_id

\* C7: after chain initialization over N nodes, for every N >= 2, no two
\* nodes linked to each other as head/tail neighbours have the same pass_id.
C7_NeighboursDiffer ==
    (chRun.kernel = "initialize_chains" /\ chRun.todo = {}) =>
        ProperlyColoured(chNodes)

\* C8: whenever linked neighbours have different pass_id, in each phase
\* dispatch of line_constraint_updates no node record stored by one thread
\* is loaded or stored by any other thread of the same dispatch.
C8_NoSharedRecord ==
    (chRun.kernel = "line_constraint_updates" /\ ProperlyColoured(chNodes)) =>
        \A a, b \in chAcc :
            a.t # b.t => a.w \cap (b.r \cup b.w) = {}

\* the kernels dispatched inside the two-phase alternating sub-sequence
TwoPhaseKernels == {"line_constraint_updates"}

\* C9: a dispatch whose threads load node records that other threads of the
\* same dispatch store runs inside the two-phase alternating sub-sequence
\* (the node buffer is the single resource of its loads and stores, so
\* there is no double-buffering); no other dispatch of a tick shares the
\* buffer for load and store across threads.
C9_HazardOnlyInTwoPhase ==
    (\E a, b \in chAcc : a.t # b.t /\ a.r \cap b.w # {}) =>
        chRun.kernel \in TwoPhaseKernels

\* the links of the records: head and tail name each other
SymmetricLinks(nodes) ==
    \A a, b \in DOMAIN nodes :
        a # b => (nodes[a].head = b <=> nodes[b].tail = a)

\* C29: after one initialize_chains dispatch over N >= 2 nodes, under every
\* interleaving of the per-node threads, the links are symmetric (node a has
\* head b, with b # a, exactly when node b has tail a) and the chain is cut
\* between node 0 and node 1 (node 0 has no head and node 1 has no tail).
C29_InitializedChain ==
    (chRun.kernel = "initialize_chains" /\ chRun.todo = {}) =>
        /\ SymmetricLinks(chNodes)
        /\ ~has_head(chNodes[0])
        /\ ~has_tail(chNodes[1])


-----------------------------------------------------------------------------
(* SpecSim: the main simulation.  index.ts resets the membrane once, then  *)
(* every call of runSimulationStep (simulate.ts) submits the force batch,  *)
(* the projection steps as two halves each, and the potential batch.       *)

\* buffers.wgsl: Segment, with the fields the guards and the links use
ZeroSegment == [id |-> 0, pass_id |-> 0, tail |-> 0, head |-> 0]

\* reset_membrane, thread idx
ResetSegment(segments, count, idx) ==
    IF idx >= count THEN segments
    ELSE [segments EXCEPT ![idx] = [id |-> idx,
                                    pass_id |-> (idx + 2) % 2,
                                    tail |-> (idx + count - 1) % count,
                                    head |-> (idx + count + 1) % count]]

\* orientation_update and line_constraint_update (render.wgsl): the thread
\* passes the early return
SegActive(segments, count, passId, idx) ==
    /\ idx < count
    /\ segments[idx].pass_id = passId
    /\ ~is_disconnected(segments[idx])

\* records a thread of a membrane kernel loads; all of them load
\* segments[idx] before any bounds check
SegReads(kernel, segments, count, passId, idx, oob) ==
    IF kernel = "reset_membrane" THEN {}
    ELSE IF idx >= count THEN oob
    ELSE CASE kernel = "steric_potential_updates" -> {idx}
           [] kernel = "steric_force_updates" ->
                {idx, segments[idx].tail, segments[idx].head}
           [] OTHER ->
                IF SegActive(segments, count, passId, idx)
                THEN {idx, segments[idx].tail, segments[idx].head}
                ELSE {idx}

\* records a thread of a membrane kernel stores to
SegWrites(kernel, segments, count, passId, idx) ==
    IF idx >= count THEN {}
    ELSE CASE kernel \in {"reset_membrane", "steric_force_updates"} -> {idx}
           [] kernel = "orientation_updates" ->
                IF SegActive(segments, count, passId, idx)
                THEN {segments[idx].head, segments[idx].tail} ELSE {}
           [] kernel = "line_constraint_updates" ->
                IF SegActive(segments, count, passId, idx) THEN {idx} ELSE {}
           [] OTHER -> {}

MembraneKernels == {"reset_membrane", "steric_force_updates",
                    "orientation_updates", "line_constraint_updates",
                    "steric_potential_updates"}

\* device.queue.writeBuffer(canvasBuffer, 2 * 4, new Uint32Array([passId]))
WritePassId(passId) == [kernel |-> "writeBuffer", half |-> passId]

SimInit ==
    /\ simCount \in 2..MaxNodes
    /\ membrane = [i \in 0..(simCount - 1) |-> ZeroSegment]
    /\ simPassId = 0
    /\ simHost = "reset"
    /\ simIter = 0
    /\ simTick = 0
    /\ simQueue = <<>>
    /\ simRun = NoRun
    /\ simAcc = {}
    /\ TypesIdle
    /\ LayoutIdle
    /\ ChainIdle
    /\ FluidsIdle
    /\ WorkgroupsIdle
    /\ LifeIdle
    /\ PingPongIdle
    /\ TableIdle
    /\ StructsIdle
    /\ ShaderIdle
    /\ LoopIdle
    /\ InputIdle
    /\ DispatchIdle
    /\ CanvasIdle
    /\ AccessorIdle
    /\ RenderIdle

\* index.ts reset(): the reset_membrane batch
SimReset ==
    /\ simHost = "reset"
    /\ simQueue' = Append(simQueue, Dispatch("reset_membrane", 0))
    /\ simHost' = "force"
    /\ UNCHANGED <<simCount, membrane, simPassId, simIter, simTick, simRun, simAcc>>

\* runSimulationStep: unconstrained force update steps
SimForce ==
    /\ simHost = "force"
    /\ simTick < MaxTicks
    /\ simQueue' = Append(simQueue, Dispatch("steric_force_updates", 0))
    /\ simHost' = "half0"
    /\ simIter' = 0
    /\ UNCHANGED <<simCount, membrane, simPassId, simTick, simRun, simAcc>>

\* runSimulationStep: one iteration of [0, 1].forEach inside the loop of the
\* projection steps: writeBuffer, then the batch of the two dispatches
SimHalf(passId) ==
    /\ simHost = (IF passId = 0 THEN "half0" ELSE "half1")
    /\ simQueue' = simQueue \o <<WritePassId(passId),
                                  Dispatch("orientation_updates", passId),
                                  Dispatch("line_constraint_updates", passId)>>
    /\ simHost' = (IF passId = 0 THEN "half1"
                   ELSE IF simIter + 1 < MaxProjectionSteps THEN "half0"
                   ELSE "potential")
    /\ simIter' = (IF passId = 0 THEN simIter ELSE simIter + 1)
    /\ UNCHANGED <<simCount, membrane, simPassId, simTick, simRun, simAcc>>

\* runSimulationStep: update steric potential
SimPotential ==
    /\ simHost = "potential"
    /\ simQueue' = simQueue \o <<Dispatch("clear_textures", 0),
                                  Dispatch("steric_potential_updates", 0),
                                  Dispatch("update_textures", 0)>>
    /\ simHost' = "force"
    /\ simTick' = simTick + 1
    /\ UNCHANGED <<simCount, membrane, simPassId, simIter, simRun, simAcc>>

\* the device executes a queued writeBuffer
SimDevWrite ==
    /\ simRun.kernel = "none"
    /\ simQueue # <<>>
    /\ Head(simQueue).kernel = "writeBuffer"
    /\ simPassId' = Head(simQueue).half
    /\ simQueue' = Tail(simQueue)
    /\ UNCHANGED <<simCount, membrane, simHost, simIter, simTick, simRun, simAcc>>

\* the device starts the next dispatch
SimDevStart ==
    /\ simRun.kernel = "none"
    /\ simQueue # <<>>
    /\ Head(simQueue).kernel # "writeBuffer"
    /\ simRun' = [kernel |-> Head(simQueue).kernel, half |-> Head(simQueue).half,
                  todo |-> IF Head(simQueue).kernel \in MembraneKernels
                           THEN Threads(simCount) ELSE {}]
    /\ simQueue' = Tail(simQueue)
    /\ UNCHANGED <<simCount, membrane, simPassId, simHost, simIter, simTick, simAcc>>

\* one thread of the running dispatch runs
SimDevThread(idx) ==
    /\ idx \in simRun.todo
    /\ \E oob \in (IF idx >= simCount THEN OobLoads(simCount) ELSE {{}}) :
          simAcc' = simAcc \cup
              {Access(idx,
                      SegReads(simRun.kernel, membrane, simCount, simPassId, idx, oob),
                      SegWrites(simRun.kernel, membrane, simCount, simPassId, idx))}
    /\ membrane' = IF simRun.kernel = "reset_membrane"
                   THEN ResetSegment(membrane, simCount, idx) ELSE membrane
    /\ simRun' = [simRun EXCEPT !.todo = @ \ {idx}]
    /\ UNCHANGED <<simCount, simPassId, simHost, simIter, simTick, simQueue>>

\* the dispatch has run all its threads
SimDevFinish ==
    /\ simRun.kernel # "none"
    /\ simRun.todo = {}
    /\ simRun' = NoRun
    /\ simAcc' = {}
    /\ UNCHANGED <<simCount, membrane, simPassId, simHost, simIter, simTick, simQueue>>

SimNext ==
    /\ \/ SimReset
       \/ SimForce
       \/ \E passId \in {0, 1} : SimHalf(passId)
       \/ SimPotential
       \/ SimDevWrite
       \/ SimDevStart
       \/ \E idx \in Threads(simCount) : SimDevThread(idx)
       \/ SimDevFinish
    /\ UNCHANGED <<typeVars, layoutVars, chainVars, fluidVars, wgVars, lifeVars, ppVars, tableVars,
                   structVars, shaderVars, loopVars, inputVars, dispatchVars, canvasVars, accessorVars, renderVars>>

SpecSim == SimInit /\ [][SimNext]_vars

\* C6: in each half of the two-phase sub-sequence the dispatched programs
\* modify only records whose pass_id equals the current phase value; no
\* record of the other colour is written during that half.
C6_OnlyCurrentColourWritten ==
    simRun.kernel \in {"orientation_updates", "line_constraint_updates"} =>
        \A a \in simAcc : \A i \in a.w : membrane[i].pass_id = simRun.half


-----------------------------------------------------------------------------
(* SpecFluids: the stable-fluids example.  frame() calls computePass(),    *)
(* which encodes one compute pass statement by statement and submits it,   *)
(* then renderPass(); the device executes the submitted compute command    *)
(* buffers in order, the dispatches of one buffer in the order they were   *)
(* encoded.                                                                *)

\* `for (let i = 0; i < 20; i++)`
PressureIterations == 20

\* mutant: the loop test off by one
LoopContinuesOffByOne(i) == i <= PressureIterations

\* the loop test of the pressure loop
LoopContinues(i) == i < PressureIterations

\* the setPipeline/dispatchWorkgroups pairs of computePass outside the loop:
\* the entry point of the pipeline and the statement that follows
StraightLine ==
    [applyForces       |-> [entryPoint |-> "apply_forces", next |-> "advectVelocity"],
     advectVelocity    |-> [entryPoint |-> "advect_velocity", next |-> "diffuseVelocity"],
     diffuseVelocity   |-> [entryPoint |-> "diffuse_velocity", next |-> "computeDivergence"],
     computeDivergence |-> [entryPoint |-> "compute_divergence", next |-> "solvePressure"],
     subtractGradient  |-> [entryPoint |-> "subtract_gradient", next |-> "advectDye"],
     advectDye         |-> [entryPoint |-> "advect_dye", next |-> "submit"]]

FluidsInit ==
    /\ flHost = "frame"
    /\ flI = 0
    /\ flPass = <<>>
    /\ flQueue = <<>>
    /\ flSubmitted = <<>>
    /\ flRun = <<>>
    /\ flExec = <<>>
    /\ flTick = 0
    /\ TypesIdle
    /\ LayoutIdle
    /\ ChainIdle
    /\ SimIdle
    /\ WorkgroupsIdle
    /\ LifeIdle
    /\ PingPongIdle
    /\ TableIdle
    /\ StructsIdle
    /\ ShaderIdle
    /\ LoopIdle
    /\ InputIdle
    /\ DispatchIdle
    /\ CanvasIdle
    /\ AccessorIdle
    /\ RenderIdle

\* frame() -> computePass(): createCommandEncoder, beginComputePass
BeginComputePass ==
    /\ flHost = "frame"
    /\ flTick < MaxFluidTicks
    /\ flPass' = <<>>
    /\ flHost' = "applyForces"
    /\ UNCHANGED <<flI, flQueue, flSubmitted, flRun, flExec, flTick>>

\* one setPipeline/dispatchWorkgroups pair outside the loop
EncodeDispatch ==
    /\ flHost \in DOMAIN StraightLine
    /\ flPass' = Append(flPass, StraightLine[flHost].entryPoint)
    /\ flHost' = StraightLine[flHost].next
    /\ flI' = (IF StraightLine[flHost].next = "solvePressure" THEN 0 ELSE flI)
    /\ UNCHANGED <<flQueue, flSubmitted, flRun, flExec, flTick>>

\* the body of the pressure loop, and i++
EncodeSolvePressure ==
    /\ flHost = "solvePressure"
    /\ LoopContinues(flI)
    /\ flPass' = Append(flPass, "solve_pressure")
    /\ flI' = flI + 1
    /\ UNCHANGED <<flHost, flQueue, flSubmitted, flRun, flExec, flTick>>

\* the loop test fails
ExitPressureLoop ==
    /\ flHost = "solvePressure"
    /\ ~LoopContinues(flI)
    /\ flHost' = "subtractGradient"
    /\ UNCHANGED <<flI, flPass, flQueue, flSubmitted, flRun, flExec, flTick>>

\* pass.end(); device.queue.submit([encoder.finish()])
SubmitComputePass ==
    /\ flHost = "submit"
    /\ flQueue' = Append(flQueue, flPass)
    /\ flSubmitted' = Append(flSubmitted, flPass)
    /\ flPass' = <<>>
    /\ flHost' = "renderPass"
    /\ UNCHANGED <<flI, flRun, flExec, flTick>>

\* frame(): computePass has returned; renderPass (no compute dispatch),
\* then requestAnimationFrame(frame)
RenderPass ==
    /\ flHost = "renderPass"
    /\ flHost' = "frame"
    /\ flTick' = flTick + 1
    /\ UNCHANGED <<flI, flPass, flQueue, flSubmitted, flRun, flExec>>

\* the device takes the next command buffer
FluidsDevStart ==
    /\ flRun = <<>>
    /\ flQueue # <<>>
    /\ flRun' = Head(flQueue)
    /\ flExec' = <<>>
    /\ flQueue' = Tail(flQueue)
    /\ UNCHANGED <<flHost, flI, flPass, flSubmitted, flTick>>

\* the device executes the next dispatch of the command buffer
FluidsDevExec ==
    /\ flRun # <<>>
    /\ flExec' = Append(flExec, Head(flRun))
    /\ flRun' = Tail(flRun)
    /\ UNCHANGED <<flHost, flI, flPass, flQueue, flSubmitted, flTick>>

FluidsNext ==
    /\ \/ BeginComputePass
       \/ EncodeDispatch
       \/ EncodeSolvePressure
       \/ ExitPressureLoop
       \/ SubmitComputePass
       \/ RenderPass
       \/ FluidsDevStart
       \/ FluidsDevExec
    /\ UNCHANGED <<typeVars, layoutVars, chainVars, simVars, wgVars, lifeVars, ppVars, tableVars,
                   structVars, shaderVars, loopVars, inputVars, dispatchVars, canvasVars, accessorVars, renderVars>>

SpecFluids == FluidsInit /\ [][FluidsNext]_vars

\* the order the claim declares
DeclaredTick ==
    <<"apply_forces", "advect_velocity", "diffuse_velocity", "compute_divergence">>
    \o [i \in 1..20 |-> "solve_pressure"]
    \o <<"subtract_gradient", "advect_dye">>

IsPrefix(p, q) == Len(p) <= Len(q) /\ p = SubSeq(q, 1, Len(p))

\* C10: each stable-fluids tick issues, in one submitted batch and in
\* exactly this order, apply_forces, advect_velocity, diffuse_velocity,
\* compute_divergence, exactly 20 consecutive solve_pressure dispatches with
\* nothing between them, subtract_gradient, advect_dye.  Stated on what was
\* submitted (one compute batch per tick, each the declared sequence), on
\* what is being encoded and on what the device executes.
C10_TickOrder ==
    /\ \A k \in 1..Len(flSubmitted) : flSubmitted[k] = DeclaredTick
    /\ Len(flSubmitted) = flTick + (IF flHost = "renderPass" THEN 1 ELSE 0)
    /\ IsPrefix(flPass, DeclaredTick)
    /\ \/ flExec \o flRun = DeclaredTick
       \/ flExec = <<>> /\ flRun = <<>>

\* a whole tick has been submitted and the device has executed its compute
\* batch to the end
C10_Witness ==
    /\ flTick >= 1
    /\ flExec = DeclaredTick
    /\ flRun = <<>>


-----------------------------------------------------------------------------
(* SpecWorkgroups: the workgroup count of a texture-sized dispatch,        *)
(* Math.ceil(textures.size.width / Math.sqrt(WORKGROUP_SIZE)), for one     *)
(* dimension of the texture.  The kernels are declared                     *)
(* @workgroup_size(t, t) with t * t = WORKGROUP_SIZE.                      *)

MaxDim == 520           \* largest texture dimension generated
MaxTile == 17           \* largest per-workgroup tile edge generated

\* Math.sqrt of a perfect square
MathSqrt(n) == CHOOSE r \in 0..n : r * r = n

\* mutant: integer division, the quotient truncated
MathCeilTruncated(a, b) == a \div b

\* Math.ceil(a / b) for positive integers a and b
MathCeil(a, b) == IF a % b = 0 THEN a \div b ELSE (a \div b) + 1

\* one entry of WORKGROUP_COUNT
TextureWorkgroupCount(dim, workgroupSize) ==
    MathCeil(dim, MathSqrt(workgroupSize))

WorkgroupsInit ==
    /\ wgDim \in 1..MaxDim
    /\ wgWorkgroupSize \in {t * t : t \in 1..MaxTile}
    /\ wgCount = Undefined
    /\ TypesIdle
    /\ LayoutIdle
    /\ ChainIdle
    /\ SimIdle
    /\ FluidsIdle
    /\ LifeIdle
    /\ PingPongIdle
    /\ TableIdle
    /\ StructsIdle
    /\ ShaderIdle
    /\ LoopIdle
    /\ InputIdle
    /\ DispatchIdle
    /\ CanvasIdle
    /\ AccessorIdle
    /\ RenderIdle

\* const WORKGROUP_COUNT = [Math.ceil(...), Math.ceil(...)]
DeriveWorkgroupCount ==
    /\ wgCount = Undefined
    /\ wgCount' = Some(TextureWorkgroupCount(wgDim, wgWorkgroupSize))
    /\ UNCHANGED <<wgDim, wgWorkgroupSize>>

WorkgroupsNext ==
    /\ DeriveWorkgroupCount
    /\ UNCHANGED <<typeVars, layoutVars, chainVars, simVars, fluidVars, lifeVars, ppVars, tableVars,
                   structVars, shaderVars, loopVars, inputVars, dispatchVars, canvasVars, accessorVars, renderVars>>

SpecWorkgroups == WorkgroupsInit /\ [][WorkgroupsNext]_vars

\* C11: for every texture dimension d >= 1 and tile size t >= 1 the derived
\* workgroup count c is ceil(d / t): c * t >= d and (c - 1) * t < d; and
\* d = 513, t = 16 gives c = 33.
C11_CeilingCount ==
    wgCount # Undefined =>
        LET d == wgDim
            t == MathSqrt(wgWorkgroupSize)
            c == ValueOf(wgCount)
        IN /\ c * t >= d
           /\ (c - 1) * t < d
           /\ (d = 513 /\ t = 16) => c = 33

\* the count has been derived for the 513 x 16 example
C11_Witness ==
    /\ wgDim = 513
    /\ wgWorkgroupSize = 256
    /\ wgCount = Some(33)


-----------------------------------------------------------------------------
(* SpecLife: the two-pass Game of Life.  computePass encodes               *)
(* count_neighbors and apply_rule into one compute pass and submits it;    *)
(* the device executes the two dispatches in that order, the threads of    *)
(* one dispatch in any order.  canvas.size on the device is the size of    *)
(* the textures.                                                           *)

MaxGridX == 2           \* widest board whose threads are interleaved
MaxGridY == 1           \* tallest board whose threads are interleaved
MaxLifeTicks == 1       \* frames of the game-of-life example the model runs

Cells(size) == (0..(size.x - 1)) \X (0..(size.y - 1))
Layers == {0, 1}
Texels(size) == {<<l, c[1], c[2]>> : l \in Layers, c \in Cells(size)}

\* the global invocation ids the model runs for a texture-sized dispatch:
\* every cell, and ids past the right edge
LifeThreads(size) ==
    Cells(size) \cup {<<size.x + k, 0>> : k \in 0..(ExtraThreads - 1)}

InBounds(idx, size) ==
    idx[1] >= 0 /\ idx[1] < size.x /\ idx[2] >= 0 /\ idx[2] < size.y

\* the i32 remainder of WGSL: truncated, with the sign of the dividend
WgslRem(a, b) == IF a >= 0 THEN a % b ELSE 0 - ((0 - a) % b)

\* mutant: clamp to the edge instead of wrapping around
WrapClamped(c, d, n) ==
    IF c + d < 0 THEN 0 ELSE IF c + d >= n THEN n - 1 ELSE c + d

\* (idx.x + dx + size.x) % size.x
Wrap(c, d, n) == WgslRem(c + d + n, n)

\* the (dx, dy) the two loops visit
Offsets == {d \in (-1..1) \X (-1..1) : d # <<0, 0>>}

\* count_neighbors: `neighbor` for one (dx, dy)
Neighbor(idx, d, size) ==
    <<Wrap(idx[1], d[1], size.x), Wrap(idx[2], d[2], size.y)>>

\* count_neighbors: `count` of one layer after the two loops
Count(st, idx, layer, size) ==
    Cardinality({d \in Offsets :
        st[<<layer, Neighbor(idx, d, size)[1], Neighbor(idx, d, size)[2]>>] > 0})

\* texels a thread of count_neighbors loads: textureLoad(states, neighbor, layer)
CountLoads(idx, size) ==
    {<<"states", l, Neighbor(idx, d, size)[1], Neighbor(idx, d, size)[2]>> :
        l \in Layers, d \in Offsets}

\* mutant: the count stored in place, into the texture that is being read
CountStoresInPlace(idx, size) ==
    IF InBounds(idx, size)
    THEN {<<"states", l, idx[1], idx[2]>> : l \in Layers} ELSE {}

\* texels a thread of count_neighbors stores to; a textureStore with
\* coordinates outside the texture is not executed
CountStores(idx, size) ==
    IF InBounds(idx, size)
    THEN {<<"neighbors", l, idx[1], idx[2]>> : l \in Layers} ELSE {}

\* apply_rule: `brush`, distance < abs(interactions.size) with the toroidal
\* displacement (x - y) - dims * floor((x - y) / dims + 0.5)
Displacement(a, b, dim) == (a - b) - dim * ((2 * (a - b) + dim) \div (2 * dim))
Brush(idx, size, inter) ==
    LET dx == Displacement(idx[1], inter.x, size.x)
        dy == Displacement(idx[2], inter.y, size.y)
    IN dx * dx + dy * dy < inter.size * inter.size

\* apply_rule: newState
NewState(alive, n) ==
    IF alive THEN (IF n = 2 \/ n = 3 THEN 1 ELSE 0)
    ELSE (IF n = 3 THEN 1 ELSE 0)

\* texels a thread of apply_rule loads
RuleLoads(idx, size, inter) ==
    IF ~InBounds(idx, size) \/ Brush(idx, size, inter) THEN {}
    ELSE {<<tex, l, idx[1], idx[2]>> : tex \in {"states", "neighbors"}, l \in Layers}

\* texels a thread of apply_rule stores to
RuleStores(idx, size) ==
    IF InBounds(idx, size)
    THEN {<<"states", l, idx[1], idx[2]>> : l \in Layers} ELSE {}

\* the 4 x 4 checkerboard: the two layers hold the two parities
Checkerboard ==
    [t \in Texels([x |-> 4, y |-> 4]) |-> (t[1] + t[2] + t[3]) % 2]

\* initial contents of states (index.ts fills it with random 0/1): dead,
\* alive, one live cell per layer, alternating cells
BoardPatterns(size) ==
    {[t \in Texels(size) |-> 0],
     [t \in Texels(size) |-> 1],
     [t \in Texels(size) |-> IF t[2] = 0 /\ t[3] = 0 THEN 1 ELSE 0],
     [t \in Texels(size) |-> (t[1] + t[2] + t[3]) % 2]}

LifeInit ==
    /\ lifeSize \in [x : 1..MaxGridX, y : 1..MaxGridY]
    /\ states \in BoardPatterns(lifeSize)
    /\ neighbors = [t \in Texels(lifeSize) |-> 0]
    /\ lifeInteractions \in {[x |-> 0, y |-> 0, size |-> s] : s \in {0, 1}}
    /\ lifeQueue = <<>>
    /\ lifeRun = NoRun
    /\ lifeAcc = {}
    /\ lifeDone = <<>>
    /\ lifeTick = 0
    /\ TypesIdle
    /\ LayoutIdle
    /\ ChainIdle
    /\ SimIdle
    /\ FluidsIdle
    /\ WorkgroupsIdle
    /\ PingPongIdle
    /\ TableIdle
    /\ StructsIdle
    /\ ShaderIdle
    /\ LoopIdle
    /\ InputIdle
    /\ DispatchIdle
    /\ CanvasIdle
    /\ AccessorIdle
    /\ RenderIdle

\* frame(): computePass() submits one pass with the two dispatches
LifeComputePass ==
    /\ lifeTick < MaxLifeTicks
    /\ lifeQueue' = lifeQueue \o <<"count_neighbors", "apply_rule">>
    /\ lifeTick' = lifeTick + 1
    /\ UNCHANGED <<lifeSize, states, neighbors, lifeInteractions, lifeRun,
                   lifeAcc, lifeDone>>

\* the device starts the next dispatch
LifeDevStart ==
    /\ lifeRun.kernel = "none"
    /\ lifeQueue # <<>>
    /\ lifeRun' = [kernel |-> Head(lifeQueue), half |-> 0,
                   todo |-> LifeThreads(lifeSize)]
    /\ lifeQueue' = Tail(lifeQueue)
    /\ UNCHANGED <<lifeSize, states, neighbors, lifeInteractions, lifeAcc,
                   lifeDone, lifeTick>>

\* one thread of count_neighbors runs
CountNeighborsThread(idx) ==
    /\ lifeRun.kernel = "count_neighbors"
    /\ idx \in lifeRun.todo
    /\ neighbors' =
          [t \in DOMAIN neighbors |->
              IF <<"neighbors", t[1], t[2], t[3]>> \in CountStores(idx, lifeSize)
              THEN Count(states, idx, t[1], lifeSize) ELSE neighbors[t]]
    /\ lifeAcc' = lifeAcc \cup
          {Access(idx, CountLoads(idx, lifeSize), CountStores(idx, lifeSize))}
    /\ lifeRun' = [lifeRun EXCEPT !.todo = @ \ {idx}]
    /\ UNCHANGED <<lifeSize, states, lifeInteractions, lifeQueue, lifeDone, lifeTick>>

\* one thread of apply_rule runs
ApplyRuleThread(idx) ==
    /\ lifeRun.kernel = "apply_rule"
    /\ idx \in lifeRun.todo
    /\ states' =
          [t \in DOMAIN states |->
              IF <<"states", t[1], t[2], t[3]>> \notin RuleStores(idx, lifeSize)
              THEN states[t]
              ELSE IF Brush(idx, lifeSize, lifeInteractions) THEN 1
              ELSE NewState(states[t] > 0, neighbors[t])]
    /\ lifeAcc' = lifeAcc \cup
          {Access(idx, RuleLoads(idx, lifeSize, lifeInteractions),
                       RuleStores(idx, lifeSize))}
    /\ lifeRun' = [lifeRun EXCEPT !.todo = @ \ {idx}]
    /\ UNCHANGED <<lifeSize, neighbors, lifeInteractions, lifeQueue, lifeDone,
                   lifeTick>>

\* the dispatch has run all its threads
LifeDevFinish ==
    /\ lifeRun.kernel # "none"
    /\ lifeRun.todo = {}
    /\ lifeDone' = Append(lifeDone, lifeRun.kernel)
    /\ lifeRun' = NoRun
    /\ lifeAcc' = {}
    /\ UNCHANGED <<lifeSize, states, neighbors, lifeInteractions, lifeQueue, lifeTick>>

LifeNext ==
    /\ \/ LifeComputePass
       \/ LifeDevStart
       \/ \E idx \in LifeThreads(lifeSize) : CountNeighborsThread(idx)
       \/ \E idx \in LifeThreads(lifeSize) : ApplyRuleThread(idx)
       \/ LifeDevFinish
    /\ UNCHANGED <<typeVars, layoutVars, chainVars, simVars, fluidVars, wgVars, ppVars, tableVars,
                   structVars, shaderVars, loopVars, inputVars, dispatchVars, canvasVars, accessorVars, renderVars>>

SpecLife == LifeInit /\ [][LifeNext]_vars

\* C12: in each tick count_neighbors runs before apply_rule, and within each
\* of the two dispatches no texel stored by one thread is loaded or stored
\* by a different thread of the same dispatch: count_neighbors loads states
\* and stores only to neighbors, apply_rule loads and stores only its own
\* cell.
C12_TwoPassRaceFree ==
    /\ \A k \in 1..Len(lifeDone) :
          lifeDone[k] = (IF k % 2 = 1 THEN "count_neighbors" ELSE "apply_rule")
    /\ lifeRun.kernel = "apply_rule" => Len(lifeDone) % 2 = 1
    /\ lifeRun.kernel = "count_neighbors" => Len(lifeDone) % 2 = 0
    /\ \A a, b \in lifeAcc : a.t # b.t => a.w \cap (b.r \cup b.w) = {}
    /\ lifeRun.kernel = "count_neighbors" =>
          \A a \in lifeAcc : /\ \A t \in a.r : t[1] = "states"
                              /\ \A u \in a.w : u[1] = "neighbors"
    /\ lifeRun.kernel = "apply_rule" =>
          \A a \in lifeAcc :
              /\ \A t \in a.r \cup a.w : <<t[3], t[4]>> = a.t
              /\ \A u \in a.w : u[1] = "states"

\* both dispatches of a tick are under way on a board with more than one
\* cell: apply_rule runs after count_neighbors has finished and two of its
\* threads have stored
C12_Witness ==
    /\ lifeRun.kernel = "apply_rule"
    /\ lifeDone = <<"count_neighbors">>
    /\ \E a, b \in lifeAcc : a.t # b.t /\ a.w # {} /\ b.w # {}

-----------------------------------------------------------------------------
(* SpecLifeBoard: the same two dispatches on the 4 x 4 checkerboard and on *)
(* small boards, each dispatch taken as a whole: all its threads have run. *)
(* No thread of either dispatch loads what another thread of it stores     *)
(* (SpecLife), so the result is the one of running the threads in any      *)
(* order.                                                                  *)

\* the neighbors texture after all threads of count_neighbors have run
CountDispatch(st, nb, size) ==
    [t \in DOMAIN nb |->
        IF \E idx \in LifeThreads(size) :
              <<"neighbors", t[1], t[2], t[3]>> \in CountStores(idx, size)
        THEN Count(st, <<t[2], t[3]>>, t[1], size) ELSE nb[t]]

\* the states texture after all threads of apply_rule have run
RuleDispatch(st, nb, size, inter) ==
    [t \in DOMAIN st |->
        IF <<"states", t[1], t[2], t[3]>> \notin RuleStores(<<t[2], t[3]>>, size)
        THEN st[t]
        ELSE IF Brush(<<t[2], t[3]>>, size, inter) THEN 1
        ELSE NewState(st[t] > 0, nb[t])]

BoardInit ==
    /\ \/ /\ lifeSize = [x |-> 4, y |-> 4]
          /\ states = Checkerboard
       \/ /\ lifeSize \in [x : 1..MaxGridX, y : 1..MaxGridY]
          /\ states \in [Texels(lifeSize) -> {0, 1}]
    /\ neighbors = [t \in Texels(lifeSize) |-> 0]
    /\ lifeInteractions \in {[x |-> 0, y |-> 0, size |-> s] : s \in {0, 1}}
    /\ lifeQueue = <<>>
    /\ lifeRun = NoRun
    /\ lifeAcc = {}
    /\ lifeDone = <<>>
    /\ lifeTick = 0
    /\ TypesIdle
    /\ LayoutIdle
    /\ ChainIdle
    /\ SimIdle
    /\ FluidsIdle
    /\ WorkgroupsIdle
    /\ PingPongIdle
    /\ TableIdle
    /\ StructsIdle
    /\ ShaderIdle
    /\ LoopIdle
    /\ InputIdle
    /\ DispatchIdle
    /\ CanvasIdle
    /\ AccessorIdle
    /\ RenderIdle

\* the device executes the next dispatch of the queue, all its threads
BoardDispatch ==
    /\ lifeQueue # <<>>
    /\ neighbors' = IF Head(lifeQueue) = "count_neighbors"
                    THEN CountDispatch(states, neighbors, lifeSize)
                    ELSE neighbors
    /\ states' = IF Head(lifeQueue) = "apply_rule"
                 THEN RuleDispatch(states, neighbors, lifeSize, lifeInteractions)
                 ELSE states
    /\ lifeDone' = Append(lifeDone, Head(lifeQueue))
    /\ lifeQueue' = Tail(lifeQueue)
    /\ UNCHANGED <<lifeSize, lifeInteractions, lifeRun, lifeAcc, lifeTick>>

BoardNext ==
    /\ \/ LifeComputePass
       \/ BoardDispatch
    /\ UNCHANGED <<typeVars, layoutVars, chainVars, simVars, fluidVars, wgVars, ppVars, tableVars,
                   structVars, shaderVars, loopVars, inputVars, dispatchVars, canvasVars, accessorVars, renderVars>>

SpecLifeBoard == BoardInit /\ [][BoardNext]_vars

\* the 8 neighbours of a cell on the 4 x 4 torus
Torus4(c) ==
    {<<(c[1] + d[1]) % 4, (c[2] + d[2]) % 4>> : d \in Offsets}

\* C14: on the 4 x 4 checkerboard one count_neighbors dispatch stores in
\* every cell the number of live cells among its 8 neighbours with toroidal
\* wraparound; the neighbours of the corner (0,0) are (3,3), (3,0), (3,1),
\* (0,3), (0,1), (1,3), (1,0), (1,1).
C14_CheckerboardCounts ==
    (/\ lifeSize = [x |-> 4, y |-> 4]
     /\ lifeTick = 1
     /\ Len(lifeDone) >= 1) =>
        /\ \A t \in Texels(lifeSize) :
              /\ neighbors[t] =
                    Cardinality({n \in Torus4(<<t[2], t[3]>>) :
                                    Checkerboard[<<t[1], n[1], n[2]>>] > 0})
              /\ neighbors[t] = 4
        /\ \A l \in Layers :
              neighbors[<<l, 0, 0>>] =
                  Cardinality({n \in {<<3, 3>>, <<3, 0>>, <<3, 1>>, <<0, 3>>,
                                      <<0, 1>>, <<1, 3>>, <<1, 0>>, <<1, 1>>} :
                                  Checkerboard[<<l, n[1], n[2]>>] > 0})

\* the count_neighbors dispatch over the checkerboard has finished
C14_Witness ==
    /\ lifeSize = [x |-> 4, y |-> 4]
    /\ lifeDone = <<"count_neighbors">>
    /\ neighbors[<<0, 0, 0>>] = 4
    /\ neighbors[<<1, 3, 3>>] = 4


(***************************************************************************)
(* The ping-pong variant of the template: two textures, two compute bind  *)
(* groups and two render bind groups; frame() encodes one compute pass    *)
(* and one render pass into one command buffer and submits it.            *)
(***************************************************************************)

\* frames the animation loop is followed for
MaxFrames == 6

Textures == {"textureA", "textureB"}

\* how the pipelines use each binding of group 0
computeBindGroupLayout == [b \in {0, 1} |-> IF b = 0 THEN "texture"
                                            ELSE "storageTexture"]
renderBindGroupLayout == [b \in {0, 1} |-> IF b = 0 THEN "sampler"
                                           ELSE "texture"]

computeBindGroupA == [b \in {0, 1} |-> IF b = 0 THEN "textureA" ELSE "textureB"]
computeBindGroupB == [b \in {0, 1} |-> IF b = 0 THEN "textureB" ELSE "textureA"]
renderBindGroupA == [b \in {0, 1} |-> IF b = 0 THEN "sampler" ELSE "textureA"]
renderBindGroupB == [b \in {0, 1} |-> IF b = 0 THEN "sampler" ELSE "textureB"]

isEvenFrame == frameCount % 2 = 0

ComputeBindGroup == IF isEvenFrame THEN computeBindGroupA ELSE computeBindGroupB

\* a render bind group that samples the texture the compute pass reads
RenderBindGroupStale == IF isEvenFrame THEN renderBindGroupA ELSE renderBindGroupB

RenderBindGroup == IF isEvenFrame THEN renderBindGroupB ELSE renderBindGroupA

\* the textures a pass reaches through the bindings of one kind
Bound(layout, group, kind) == {group[b] : b \in {b \in {0, 1} : layout[b] = kind}}

PingPongInit ==
    /\ frameCount = 0
    /\ ppHost = "idle"
    /\ ppEncoder = <<>>
    /\ ppQueue = <<>>
    /\ ppRun = <<>>
    /\ ppContent = [t \in Textures |-> 0]
    /\ ppShown = 0
    /\ ppLog = <<>>
    /\ TypesIdle
    /\ LayoutIdle
    /\ ChainIdle
    /\ SimIdle
    /\ FluidsIdle
    /\ WorkgroupsIdle
    /\ LifeIdle
    /\ TableIdle
    /\ StructsIdle
    /\ ShaderIdle
    /\ LoopIdle
    /\ InputIdle
    /\ DispatchIdle
    /\ CanvasIdle
    /\ AccessorIdle
    /\ RenderIdle

\* requestAnimationFrame calls frame(): a new command encoder
FrameBegin ==
    /\ ppHost = "idle"
    /\ frameCount < MaxFrames
    /\ ppHost' = "computePass"
    /\ ppEncoder' = <<>>
    /\ UNCHANGED <<frameCount, ppQueue, ppRun, ppContent, ppShown, ppLog>>

\* the compute pass of the frame, with the bind group of its parity
EncodeComputePass ==
    /\ ppHost = "computePass"
    /\ ppEncoder' = Append(ppEncoder, [pass |-> "compute",
                                       frame |-> frameCount,
                                       group |-> ComputeBindGroup])
    /\ ppHost' = "renderPass"
    /\ UNCHANGED <<frameCount, ppQueue, ppRun, ppContent, ppShown, ppLog>>

\* the render pass of the frame, with the bind group of its parity
EncodeRenderPass ==
    /\ ppHost = "renderPass"
    /\ ppEncoder' = Append(ppEncoder, [pass |-> "render",
                                       frame |-> frameCount,
                                       group |-> RenderBindGroup])
    /\ ppHost' = "submit"
    /\ UNCHANGED <<frameCount, ppQueue, ppRun, ppContent, ppShown, ppLog>>

\* device.queue.submit([encoder.finish()]); frameCount++
FrameSubmit ==
    /\ ppHost = "submit"
    /\ ppQueue' = Append(ppQueue, ppEncoder)
    /\ ppEncoder' = <<>>
    /\ frameCount' = frameCount + 1
    /\ ppHost' = "idle"
    /\ UNCHANGED <<ppRun, ppContent, ppShown, ppLog>>

\* the device takes the next command buffer
PingPongDevStart ==
    /\ ppRun = <<>>
    /\ ppQueue # <<>>
    /\ ppRun' = Head(ppQueue)
    /\ ppQueue' = Tail(ppQueue)
    /\ UNCHANGED <<frameCount, ppHost, ppEncoder, ppContent, ppShown, ppLog>>

\* the compute pass: every texel of the storage texture is computed from
\* the sampled texture, one simulation step later
PingPongDevCompute ==
    /\ ppRun # <<>>
    /\ Head(ppRun).pass = "compute"
    /\ LET reads == Bound(computeBindGroupLayout, Head(ppRun).group, "texture")
           writes == Bound(computeBindGroupLayout, Head(ppRun).group,
                           "storageTexture")
       IN /\ ppContent' = [t \in Textures |->
                              IF t \in writes
                              THEN ppContent[CHOOSE r \in reads : TRUE] + 1
                              ELSE ppContent[t]]
          /\ ppLog' = Append(ppLog, [pass |-> "compute",
                                     frame |-> Head(ppRun).frame,
                                     reads |-> reads, writes |-> writes])
    /\ ppRun' = Tail(ppRun)
    /\ UNCHANGED <<frameCount, ppHost, ppEncoder, ppQueue, ppShown>>

\* the render pass: the fragment shader samples its texture
PingPongDevRender ==
    /\ ppRun # <<>>
    /\ Head(ppRun).pass = "render"
    /\ LET reads == Bound(renderBindGroupLayout, Head(ppRun).group, "texture")
       IN /\ ppShown' = ppContent[CHOOSE r \in reads : TRUE]
          /\ ppLog' = Append(ppLog, [pass |-> "render",
                                     frame |-> Head(ppRun).frame,
                                     reads |-> reads, writes |-> {}])
    /\ ppRun' = Tail(ppRun)
    /\ UNCHANGED <<frameCount, ppHost, ppEncoder, ppQueue, ppContent>>

PingPongNext ==
    /\ \/ FrameBegin
       \/ EncodeComputePass
       \/ EncodeRenderPass
       \/ FrameSubmit
       \/ PingPongDevStart
       \/ PingPongDevCompute
       \/ PingPongDevRender
    /\ UNCHANGED <<typeVars, layoutVars, chainVars, simVars, fluidVars, wgVars, lifeVars, tableVars,
                   structVars, shaderVars, loopVars, inputVars, dispatchVars, canvasVars, accessorVars, renderVars>>

SpecPingPong == PingPongInit /\ [][PingPongNext]_vars

\* the passes executed so far come in pairs, compute then render, one pair
\* per frame
ComputeOf(k) == ppLog[2 * k - 1]
RenderOf(k) == ppLog[2 * k]

\* C13: in every frame the compute pass reads one texture and writes the
\* other, the render pass of the frame samples the texture just written (so
\* the canvas shows the newest simulation step), and the two textures swap
\* roles from each frame to the next.
C13_PingPong ==
    /\ \A i \in 1..Len(ppLog) :
          /\ ppLog[i].pass = (IF i % 2 = 1 THEN "compute" ELSE "render")
          /\ ppLog[i].frame = (i - 1) \div 2
    /\ \A k \in 1..((Len(ppLog) + 1) \div 2) :
          /\ ComputeOf(k).reads \in {{"textureA"}, {"textureB"}}
          /\ ComputeOf(k).writes = Textures \ ComputeOf(k).reads
          /\ k > 1 => /\ ComputeOf(k).reads = ComputeOf(k - 1).writes
                      /\ ComputeOf(k).writes = ComputeOf(k - 1).reads
    /\ \A k \in 1..(Len(ppLog) \div 2) :
          RenderOf(k).reads = ComputeOf(k).writes
    /\ (Len(ppLog) > 0 /\ Len(ppLog) % 2 = 0) => ppShown = Len(ppLog) \div 2

\* the second frame has been drawn: it read textureB and wrote textureA
C13_Witness ==
    /\ Len(ppLog) = 4
    /\ ppLog[3].reads = {"textureB"}
    /\ ppLog[3].writes = {"textureA"}
    /\ ppLog[4].reads = {"textureA"}
    /\ ppShown = 2

(***************************************************************************)
(* The resource table: setupTextures allocates one texture per declared   *)
(* slot and uploads its initial content; createPipelineLayout builds the  *)
(* bind group layout and the bind group.  The device is modelled by the   *)
(* calls it receives, each with the outcome of its validation, and by the *)
(* bytes of every texture.                                                *)
(***************************************************************************)

\* largest slot number of a declaration
MaxSlot == 1
\* longest list of texture slots, and of buffer slots
MaxTextures == 2
MaxBuffers == 2
MaxWidth == 2
MaxHeight == 2
MaxLayers == 2

Slots == 0..MaxSlot
\* the buffer slots overlap the texture slots in MaxSlot
BufferSlots == MaxSlot..(MaxSlot + 1)

Formats == {"r32float", "rg32float", "rgba8unorm", "stencil8"}

DEFAULT_FORMAT == "r32float"

\* the characters of a format name
FormatChars(format) ==
    CASE format = "r32float" -> <<"r", "3", "2", "f", "l", "o", "a", "t">>
      [] format = "rg32float" -> <<"r", "g", "3", "2", "f", "l", "o", "a", "t">>
      [] format = "rgba8unorm" ->
            <<"r", "g", "b", "a", "8", "u", "n", "o", "r", "m">>
      [] format = "stencil8" -> <<"s", "t", "e", "n", "c", "i", "l", "8">>

\* String.prototype.includes
Includes(chars, sub) ==
    \E i \in 1..(Len(chars) - Len(sub) + 1) :
        SubSeq(chars, i, i + Len(sub) - 1) = sub

\* channelCount returns a number or throws
channelCount(format) ==
    LET c == FormatChars(format)
    IN IF Includes(c, <<"r", "g", "b", "a">>) THEN [threw |-> FALSE, value |-> 4]
       ELSE IF Includes(c, <<"r", "g", "b">>) THEN [threw |-> FALSE, value |-> 3]
       ELSE IF Includes(c, <<"r", "g">>) THEN [threw |-> FALSE, value |-> 2]
       ELSE IF Includes(c, <<"r">>) THEN [threw |-> FALSE, value |-> 1]
       ELSE [threw |-> TRUE, value |-> 0]

\* Float32Array.BYTES_PER_ELEMENT
BYTES_PER_ELEMENT == 4

\* device: bytes of one texel of a format, and of one of its channels
TexelBytes(format) ==
    CASE format = "r32float" -> 4
      [] format = "rg32float" -> 8
      [] format = "rgba8unorm" -> 4
      [] format = "stencil8" -> 1

Channels(format) ==
    CASE format = "r32float" -> 1
      [] format = "rg32float" -> 2
      [] format = "rgba8unorm" -> 4
      [] format = "stencil8" -> 1

ElementBytes(format) == TexelBytes(format) \div Channels(format)

\* device: the formats a texture with STORAGE_BINDING usage may have
StorageFormats == {"r32float", "rg32float", "rgba8unorm"}

FormatOf(key) == IF txFormat[key] # Undefined THEN ValueOf(txFormat[key])
                 ELSE DEFAULT_FORMAT

LayersOf(key) == IF txLayers[key] # Undefined THEN ValueOf(txLayers[key])
                 ELSE 1

\* an array filled with ones
ones(height, width, layers) ==
    [i \in 1..height |-> [j \in 1..width |-> [k \in 1..layers |-> 1]]]

zeros(height, width, layers) ==
    [i \in 1..height |-> [j \in 1..width |-> [k \in 1..layers |-> 0]]]

\* the initial data a caller supplies: cells 0 and 1, by position
Supplied(height, width, layers) ==
    [i \in 1..height |-> [j \in 1..width |-> [k \in 1..layers |->
        (i + j + k) % 2]]]

\* flatten reads nestedArray[0][0].length: a TypeError on an array with no
\* row or with an empty first row
FlattenThrows(nestedArray) ==
    \/ Len(nestedArray) = 0
    \/ Len(nestedArray[1]) = 0

\* layer by layer, row by row
flatten(nestedArray) ==
    LET rows == Len(nestedArray)
        cols == Len(nestedArray[1])
        deep == Len(nestedArray[1][1])
    IN [n \in 1..(deep * rows * cols) |->
           nestedArray[(((n - 1) % (rows * cols)) \div cols) + 1]
                      [((n - 1) % cols) + 1]
                      [((n - 1) \div (rows * cols)) + 1]]

\* the four bytes of a 32-bit float, least significant first (0 and 1 only)
Float32Bytes(v) == IF v = 0 THEN <<0, 0, 0, 0>> ELSE <<0, 0, 128, 63>>

\* byte n (from 0) of a Float32Array
ByteAt(array, n) == Float32Bytes(array[(n \div 4) + 1])[(n % 4) + 1]

\* device: the bytes of a texture, by layer, row, column and byte of texel
Extent(width, height, layers, format) ==
    (0..(layers - 1)) \X (0..(height - 1)) \X (0..(width - 1))
        \X (0..(TexelBytes(format) - 1))

\* device: createTexture validation
TextureValid(width, height, layers, format) ==
    /\ width > 0
    /\ height > 0
    /\ layers > 0
    /\ format \in StorageFormats

\* device: a texture is zero-initialised
ZeroContent(width, height, layers, format) ==
    [b \in Extent(width, height, layers, format) |-> 0]

\* device: writeTexture validation of the linear data
RequiredBytes(bytesPerRow, rowsPerImage, width, height, layers, format) ==
    bytesPerRow * rowsPerImage * (layers - 1)
        + bytesPerRow * (height - 1) + width * TexelBytes(format)

WriteValid(valid, dataBytes, bytesPerRow, rowsPerImage, w, h, layers, format) ==
    /\ valid
    /\ (h > 1 \/ layers > 1) => bytesPerRow >= w * TexelBytes(format)
    /\ layers > 1 => rowsPerImage >= h
    /\ RequiredBytes(bytesPerRow, rowsPerImage, w, h, layers, format)
          <= dataBytes

\* device: the bytes writeTexture copies
Written(array, bytesPerRow, rowsPerImage, width, height, layers, format) ==
    [b \in Extent(width, height, layers, format) |->
        ByteAt(array, (b[1] * rowsPerImage + b[2]) * bytesPerRow
                          + b[3] * TexelBytes(format) + b[4])]

\* sequences of length 1 to n over S
SeqsUpTo(S, n) == UNION {[1..m -> S] : m \in 1..n}

\* Object.keys: the integer keys in ascending order
ObjectKeys(obj) ==
    LET S == {k \in DOMAIN obj : obj[k] # Undefined}
    IN CHOOSE s \in [1..Cardinality(S) -> S] :
           \A i, j \in 1..Cardinality(S) : i < j => s[i] < s[j]

TableInit ==
    /\ txBindings \in SeqsUpTo(Slots, MaxTextures)
    /\ txData \in SUBSET Slots
    /\ txSize \in [width : 0..MaxWidth, height : 0..MaxHeight]
    /\ txLayers \in [Slots -> {Undefined} \cup {Some(n) : n \in 1..MaxLayers}]
    /\ txFormat \in [Slots -> {Undefined} \cup {Some(f) : f \in Formats \ {DEFAULT_FORMAT}}]
    /\ txPc = "createTexture"
    /\ txI = 1
    /\ textures = [k \in Slots |-> Undefined]
    /\ bindingLayout = [k \in Slots |-> Undefined]
    /\ txContent = [k \in Slots |-> <<>>]
    /\ txCalls = <<>>
    /\ txError = "none"
    /\ txBufferSlots = <<>>
    /\ layoutEntries = <<>>
    /\ groupEntries = <<>>
    /\ TypesIdle
    /\ LayoutIdle
    /\ ChainIdle
    /\ SimIdle
    /\ FluidsIdle
    /\ WorkgroupsIdle
    /\ LifeIdle
    /\ PingPongIdle
    /\ StructsIdle
    /\ ShaderIdle
    /\ LoopIdle
    /\ InputIdle
    /\ DispatchIdle
    /\ CanvasIdle
    /\ AccessorIdle
    /\ RenderIdle

\* bindings.forEach: textures[key] = device.createTexture(...)
CreateTexture ==
    /\ txPc = "createTexture"
    /\ LET key == txBindings[txI]
           valid == TextureValid(txSize.width, txSize.height, LayersOf(key),
                                 FormatOf(key))
       IN /\ txCalls' = Append(txCalls, [call |-> "createTexture",
                                         key |-> key, valid |-> valid])
          /\ textures' = [textures EXCEPT
                            ![key] = Some([id |-> Len(txCalls) + 1,
                                           valid |-> valid])]
          /\ txContent' = [txContent EXCEPT
                             ![key] = ZeroContent(txSize.width, txSize.height,
                                                  LayersOf(key), FormatOf(key))]
    /\ IF txI < Len(txBindings)
       THEN txI' = txI + 1 /\ txPc' = txPc
       ELSE txI' = 1 /\ txPc' = "writeTexture"
    /\ UNCHANGED <<txBindings, txData, txSize, txLayers, txFormat,
                   bindingLayout, txError, txBufferSlots, layoutEntries,
                   groupEntries>>

\* Object.keys(textures).forEach: binding layout, array, writeTexture
UploadTexture ==
    /\ txPc = "writeTexture"
    /\ LET key == ObjectKeys(textures)[txI]
           layers == LayersOf(key)
           nested == IF key \in txData
                     THEN Supplied(txSize.height, txSize.width, layers)
                     ELSE zeros(txSize.height, txSize.width, layers)
           channels == channelCount(FormatOf(key))
           array == flatten(nested)
           bytesPerRow == txSize.width * BYTES_PER_ELEMENT * channels.value
           valid == WriteValid(ValueOf(textures[key]).valid,
                               Len(array) * BYTES_PER_ELEMENT, bytesPerRow,
                               txSize.height, txSize.width, txSize.height,
                               layers, FormatOf(key))
       IN /\ bindingLayout' = [bindingLayout EXCEPT
                ![key] = Some([format |-> FormatOf(key),
                               access |-> "read-write",
                               viewDimension |-> IF layers > 1 THEN "2d-array"
                                                 ELSE "2d"])]
          /\ IF FlattenThrows(nested)
             THEN /\ txError' = "TypeError"
                  /\ txPc' = "thrown"
                  /\ UNCHANGED <<txI, txCalls, txContent>>
             ELSE IF channels.threw
             THEN /\ txError' = "Error: Invalid format"
                  /\ txPc' = "thrown"
                  /\ UNCHANGED <<txI, txCalls, txContent>>
             ELSE /\ txCalls' = Append(txCalls,
                        [call |-> "writeTexture", key |-> key, valid |-> valid,
                         format |-> FormatOf(key),
                         dataBytes |-> Len(array) * BYTES_PER_ELEMENT,
                         bytesPerRow |-> bytesPerRow,
                         rowsPerImage |-> txSize.height,
                         width |-> txSize.width, height |-> txSize.height,
                         layers |-> layers])
                  /\ txContent' = [txContent EXCEPT ![key] =
                        IF valid
                        THEN Written(array, bytesPerRow, txSize.height,
                                     txSize.width, txSize.height, layers,
                                     FormatOf(key))
                        ELSE @]
                  /\ txError' = txError
                  /\ IF txI < Len(ObjectKeys(textures))
                     THEN txI' = txI + 1 /\ txPc' = txPc
                     ELSE txI' = 1 /\ txPc' = "canvas"
    /\ UNCHANGED <<txBindings, txData, txSize, txLayers, txFormat, textures,
                   txBufferSlots, layoutEntries, groupEntries>>

\* the canvas buffer, and the return of setupTextures
CanvasBuffer ==
    /\ txPc = "canvas"
    /\ txCalls' = txCalls \o <<[call |-> "createBuffer", key |-> "canvas",
                                valid |-> TRUE],
                               [call |-> "writeBuffer", key |-> "canvas",
                                valid |-> TRUE]>>
    /\ txPc' = "done"
    /\ UNCHANGED <<txBindings, txData, txSize, txLayers, txFormat, txI,
                   textures, bindingLayout, txContent, txError, txBufferSlots,
                   layoutEntries, groupEntries>>

\* the buffers object of a caller: one entry per slot, the last declared
BuffersOf(bufferSlots) ==
    [s \in {bufferSlots[i] : i \in 1..Len(bufferSlots)} |->
        [buffer |-> CHOOSE i \in 1..Len(bufferSlots) :
                        /\ bufferSlots[i] = s
                        /\ \A j \in 1..Len(bufferSlots) :
                              bufferSlots[j] = s => j <= i,
         type |-> "uniform"]]

TextureLayoutEntries ==
    [i \in 1..Len(txBindings) |->
        [binding |-> txBindings[i],
         storageTexture |-> bindingLayout[txBindings[i]]]]

BufferLayoutEntries(bufferSlots) ==
    [i \in 1..Len(bufferSlots) |->
        [binding |-> bufferSlots[i],
         buffer |-> BuffersOf(bufferSlots)[bufferSlots[i]].type]]

TextureGroupEntries ==
    [i \in 1..Len(txBindings) |->
        [binding |-> txBindings[i],
         resource |-> [texture |-> ValueOf(textures[txBindings[i]]).id]]]

BufferGroupEntries(bufferSlots) ==
    [i \in 1..Len(bufferSlots) |->
        [binding |-> bufferSlots[i],
         resource |-> [buffer |-> BuffersOf(bufferSlots)[bufferSlots[i]].buffer]]]

\* device: the bindings of the entries of a layout are distinct
EntriesValid(entries) ==
    \A i, j \in 1..Len(entries) : entries[i].binding = entries[j].binding => i = j

\* device: the three calls that build the layout and the bind group
LayoutCalls(entries) ==
    <<[call |-> "createBindGroupLayout", key |-> "layout",
       valid |-> EntriesValid(entries)],
      [call |-> "createBindGroup", key |-> "layout",
       valid |-> EntriesValid(entries)],
      [call |-> "createPipelineLayout", key |-> "layout",
       valid |-> EntriesValid(entries)]>>

\* createPipelineLayout of utils.ts: textures, then buffers, in both lists
CreatePipelineLayout ==
    /\ txPc = "done"
    /\ \E bufferSlots \in SeqsUpTo(BufferSlots, MaxBuffers) :
          /\ txBufferSlots' = bufferSlots
          /\ layoutEntries' = TextureLayoutEntries \o BufferLayoutEntries(bufferSlots)
          /\ groupEntries' = TextureGroupEntries \o BufferGroupEntries(bufferSlots)
    /\ txCalls' = txCalls \o LayoutCalls(layoutEntries')
    /\ txPc' = "createPipelineLayout"
    /\ UNCHANGED <<txBindings, txData, txSize, txLayers, txFormat, txI,
                   textures, bindingLayout, txContent, txError>>

\* index.ts: sharedLayoutEntries lists the buffers, then the textures;
\* sharedBindGroupEntries lists the textures, then the buffers
SharedEntries ==
    /\ txPc = "done"
    /\ \E bufferSlots \in SeqsUpTo(BufferSlots, MaxBuffers) :
          /\ txBufferSlots' = bufferSlots
          /\ layoutEntries' = BufferLayoutEntries(bufferSlots) \o TextureLayoutEntries
          /\ groupEntries' = TextureGroupEntries \o BufferGroupEntries(bufferSlots)
    /\ txCalls' = txCalls \o LayoutCalls(layoutEntries')
    /\ txPc' = "bindGroupSimulate"
    /\ UNCHANGED <<txBindings, txData, txSize, txLayers, txFormat, txI,
                   textures, bindingLayout, txContent, txError>>

TableNext ==
    /\ \/ CreateTexture
       \/ UploadTexture
       \/ CanvasBuffer
       \/ CreatePipelineLayout
       \/ SharedEntries
    /\ UNCHANGED <<typeVars, layoutVars, chainVars, simVars, fluidVars, wgVars, lifeVars, ppVars,
                   structVars, shaderVars, loopVars, inputVars, dispatchVars, canvasVars, accessorVars, renderVars>>

SpecTable == TableInit /\ [][TableNext]_vars

\* some slot occurs twice in a list of slots
HasDuplicate(slots) ==
    \E i, j \in 1..Len(slots) : i # j /\ slots[i] = slots[j]

TableBuilt == txPc \in {"done", "createPipelineLayout", "bindGroupSimulate"}
HandleBuilt == txPc \in {"createPipelineLayout", "bindGroupSimulate"}

\* C15: a declaration in which two resources (two textures, two buffers, or
\* a texture and a buffer) use the same binding slot never yields a table
\* or a binding handle: its construction fails with an error.
C15_DuplicateSlotFails ==
    /\ (TableBuilt /\ HasDuplicate(txBindings)) => txError # "none"
    /\ (HandleBuilt /\ HasDuplicate(txBindings \o txBufferSlots)) =>
          txError # "none"

\* C16: the bind group layout and the bind group list the same slots in the
\* same order, each slot once, and every bind group entry references the
\* live resource of its slot.
C16_SameSlotsSameOrder ==
    HandleBuilt =>
        /\ Len(layoutEntries) = Len(groupEntries)
        /\ \A i \in 1..Len(layoutEntries) :
              layoutEntries[i].binding = groupEntries[i].binding
        /\ EntriesValid(layoutEntries)
        /\ EntriesValid(groupEntries)
        /\ \A i \in 1..Len(groupEntries) :
              LET e == groupEntries[i]
              IN IF "texture" \in DOMAIN e.resource
                 THEN e.resource.texture = ValueOf(textures[e.binding]).id
                 ELSE e.resource.buffer =
                          BuffersOf(txBufferSlots)[e.binding].buffer

\* C17: a texture allocated without initial data holds zero in every byte
\* of its full extent (every texel of every layer and channel, whatever
\* the format), from its creation on.
C17_ZeroFilled ==
    \A key \in Slots :
        (textures[key] # Undefined /\ key \notin txData) =>
            /\ DOMAIN txContent[key] =
                  Extent(txSize.width, txSize.height, LayersOf(key),
                         FormatOf(key))
            /\ \A b \in DOMAIN txContent[key] : txContent[key][b] = 0

\* the zeros of a two-layer 2 x 2 texture have been uploaded
C17_Witness ==
    /\ txPc = "done"
    /\ txSize = [width |-> 2, height |-> 2]
    /\ 0 \notin txData
    /\ LayersOf(0) = 2
    /\ \E i \in 1..Len(txCalls) :
          /\ txCalls[i].call = "writeTexture"
          /\ txCalls[i].key = 0
          /\ txCalls[i].valid
    /\ \A b \in Extent(2, 2, 2, DEFAULT_FORMAT) : txContent[0][b] = 0

\* C18: in every texture upload the bytes per row equal width x channel
\* count x element size of the format, and the array uploaded holds
\* bytes per row x height x layers bytes.
C18_StrideAndSize ==
    \A i \in 1..Len(txCalls) :
        txCalls[i].call = "writeTexture" =>
            /\ txCalls[i].bytesPerRow =
                  txCalls[i].width * Channels(txCalls[i].format)
                      * ElementBytes(txCalls[i].format)
            /\ txCalls[i].dataBytes =
                  txCalls[i].bytesPerRow * txCalls[i].height * txCalls[i].layers

\* the request names a format channelCount rejects, or a zero size
Rejectable ==
    \/ \E i \in 1..Len(txBindings) : channelCount(FormatOf(txBindings[i])).threw
    \/ txSize.width = 0
    \/ txSize.height = 0

\* C19: a request with an unsupported format or a zero size is rejected
\* with an error, and no device call is issued for it.
C19_RejectedBeforeDeviceCalls ==
    Rejectable =>
        /\ txCalls = <<>>
        /\ ~TableBuilt

(***************************************************************************)
(* Sequences of Struct constructions.  A buffer descriptor is an object   *)
(* of the caller; the constructor reads its size as the record count and  *)
(* writes the byte size back into the same object.                        *)
(***************************************************************************)

\* descriptor objects of the caller, and constructions followed
MaxDescriptors == 2
MaxConstructions == 3

Descriptors == 1..MaxDescriptors

StructDefinitions == {RefInteractions, RefSceneUniforms}

RECURSIVE OffsetAfter(_, _)
\* currentOffset after the first n fields of the loop
OffsetAfter(def, n) ==
    IF n = 0 THEN 0
    ELSE RoundUp(def[n].type.alignment, OffsetAfter(def, n - 1))
             + def[n].type.byteSize

\* maxAlignment after the loop
MaxAlignmentOf(def) ==
    LET A == {def[i].type.alignment : i \in 1..Len(def)} \cup {0}
    IN CHOOSE a \in A : \A b \in A : b <= a

\* this.byteSize
ByteSizeOf(def) ==
    StructByteSize(IF MaxAlignmentOf(def) = 0 THEN 1 ELSE MaxAlignmentOf(def),
                   OffsetAfter(def, Len(def)))

\* the record count a descriptor size stands for
RecordCount(size) == IF size = Undefined THEN 1 ELSE ValueOf(size)

StructsInit ==
    /\ descriptors \in [Descriptors ->
                          {Undefined} \cup {Some(n) : n \in 1..MaxRecords}]
    /\ requested = descriptors
    /\ constructed = <<>>
    /\ TypesIdle
    /\ LayoutIdle
    /\ ChainIdle
    /\ SimIdle
    /\ FluidsIdle
    /\ WorkgroupsIdle
    /\ LifeIdle
    /\ PingPongIdle
    /\ TableIdle
    /\ ShaderIdle
    /\ LoopIdle
    /\ InputIdle
    /\ DispatchIdle
    /\ CanvasIdle
    /\ AccessorIdle
    /\ RenderIdle

\* the caller writes a new descriptor object { size: n, ... }
NewDescriptor(d, size) ==
    /\ Len(constructed) < MaxConstructions
    /\ descriptors[d] # size
    /\ descriptors' = [descriptors EXCEPT ![d] = size]
    /\ requested' = [requested EXCEPT ![d] = size]
    /\ UNCHANGED constructed

\* new Struct(device, bufferDescriptor, definition), bufferDescriptor
\* being the object d
Construct(d, def) ==
    /\ Len(constructed) < MaxConstructions
    /\ LET size == RecordCount(descriptors[d]) * ByteSizeOf(def)
       IN /\ descriptors' = [descriptors EXCEPT ![d] = Some(size)]
          /\ constructed' = Append(constructed,
                [descriptor |-> d,
                 records |-> RecordCount(requested[d]),
                 byteSize |-> ByteSizeOf(def),
                 gpuBufferSize |-> size])
    /\ UNCHANGED requested

StructsNext ==
    /\ \/ \E d \in Descriptors,
             size \in {Undefined} \cup {Some(n) : n \in 1..MaxRecords} :
                NewDescriptor(d, size)
       \/ \E d \in Descriptors, def \in StructDefinitions : Construct(d, def)
    /\ UNCHANGED <<typeVars, layoutVars, chainVars, simVars, fluidVars, wgVars, lifeVars, ppVars,
                   tableVars, shaderVars, loopVars, inputVars, dispatchVars, canvasVars, accessorVars, renderVars>>

SpecStructs == StructsInit /\ [][StructsNext]_vars

\* C20: every construction creates a device buffer of record count x
\* byteSize bytes, the record count being the one the caller requested
\* (1 by default), also when a descriptor object is passed to several
\* constructions.
C20_BufferSize ==
    \A i \in 1..Len(constructed) :
        constructed[i].gpuBufferSize =
            constructed[i].records * constructed[i].byteSize

(***************************************************************************)
(* Shader creation.  A program text is a sequence of lines; a line is an  *)
(* import statement `#import namespace::moduleName` or other text.  The   *)
(* module names used are not prefixes of one another, so an import       *)
(* statement occurs in the text exactly where a line equals it.           *)
(***************************************************************************)

\* lines of a program text
MaxLines == 3

Import(namespace, moduleName) ==
    [kind |-> "import", namespace |-> namespace, moduleName |-> moduleName]
Text(t) == [kind |-> "text", namespace |-> "", moduleName |-> t]

ModuleNames == {"bindings", "textures"}

CodeLines == {Import("includes", n) : n \in ModuleNames}
                \cup {Import("shared", "bindings"), Text("fn main")}

\* source text of the include files
IncludeSource(moduleName) == <<Text("// begin"), Text(moduleName)>>

\* the includes argument: undefined, or an object with some of the modules
IncludeSets ==
    {Undefined} \cup {Some([n \in D |-> IncludeSource(n)]) : D \in SUBSET ModuleNames}

\* code.matchAll(importRegex): the import statements, in order
RECURSIVE Matches(_)
Matches(code) ==
    IF code = <<>> THEN <<>>
    ELSE IF Head(code).kind = "import" THEN <<Head(code)>> \o Matches(Tail(code))
    ELSE Matches(Tail(code))

\* namespace === "includes" && includes && moduleName in includes
Resolves(stmt, includes) ==
    /\ stmt.namespace = "includes"
    /\ includes # Undefined
    /\ stmt.moduleName \in DOMAIN ValueOf(includes)

\* the keys of includesToAdd, in insertion order
RECURSIVE Keys(_, _, _)
Keys(imports, includes, seen) ==
    IF imports = <<>> THEN <<>>
    ELSE IF Resolves(Head(imports), includes) /\ Head(imports) \notin seen
    THEN <<Head(imports)>>
            \o Keys(Tail(imports), includes, seen \cup {Head(imports)})
    ELSE Keys(Tail(imports), includes, seen)

\* the statements console.warn reports
RECURSIVE Unresolved(_, _)
Unresolved(imports, includes) ==
    IF imports = <<>> THEN <<>>
    ELSE IF Resolves(Head(imports), includes)
    THEN Unresolved(Tail(imports), includes)
    ELSE <<Head(imports)>> \o Unresolved(Tail(imports), includes)

\* a replace that substitutes every occurrence
ReplaceAll(code, stmt, content) ==
    IF code = <<>> THEN <<>>
    ELSE LET F[i \in 0..Len(code)] ==
                IF i = 0 THEN <<>>
                ELSE F[i - 1] \o (IF code[i] = stmt THEN content ELSE <<code[i]>>)
         IN F[Len(code)]

\* String.prototype.replace with a string pattern: the first occurrence
Replace(code, stmt, content) ==
    IF \E i \in 1..Len(code) : code[i] = stmt
    THEN LET i == CHOOSE k \in 1..Len(code) :
                     /\ code[k] = stmt
                     /\ \A j \in 1..(k - 1) : code[j] # stmt
         IN SubSeq(code, 1, i - 1) \o content \o SubSeq(code, i + 1, Len(code))
    ELSE code

RECURSIVE ReplaceEach(_, _, _)
\* for (const [importStatement, content] of Object.entries(includesToAdd))
ReplaceEach(code, keys, includes) ==
    IF keys = <<>> THEN code
    ELSE ReplaceEach(Replace(code, Head(keys),
                             ValueOf(includes)[Head(keys).moduleName]),
                     Tail(keys), includes)

prependIncludes(code, includes) ==
    ReplaceEach(code, Keys(Matches(code), includes, {}), includes)

\* device: an import statement is not WGSL
Compiles(code) == \A i \in 1..Len(code) : code[i].kind # "import"

\* device: the messages a compilation may report (the text beyond its
\* import statements is not modelled, so any of these)
MessageLists ==
    {<<>>, <<"warning">>, <<"error">>, <<"warning", "error">>,
     <<"info", "warning">>}

HasError(messages) == \E i \in 1..Len(messages) : messages[i] = "error"

ShaderInit ==
    /\ shFunction \in {"createShader", "createShaderModule"}
    /\ shCode \in UNION {[1..n -> CodeLines] : n \in 1..MaxLines}
    /\ shIncludes \in IncludeSets
    /\ shFunction = "createShaderModule" => shIncludes = Undefined
    /\ shPc = IF shFunction = "createShader" THEN "prependIncludes"
              ELSE "createShaderModule"
    /\ processedCode = IF shFunction = "createShader" THEN <<>> ELSE shCode
    /\ shWarned = <<>>
    /\ shMessages = <<>>
    /\ shLogged = <<>>
    /\ shResult = "none"
    /\ TypesIdle
    /\ LayoutIdle
    /\ ChainIdle
    /\ SimIdle
    /\ FluidsIdle
    /\ WorkgroupsIdle
    /\ LifeIdle
    /\ PingPongIdle
    /\ TableIdle
    /\ StructsIdle
    /\ LoopIdle
    /\ InputIdle
    /\ DispatchIdle
    /\ CanvasIdle
    /\ AccessorIdle
    /\ RenderIdle

\* const processedCode = prependIncludes(code, includes)
PrependIncludes ==
    /\ shPc = "prependIncludes"
    /\ processedCode' = prependIncludes(shCode, shIncludes)
    /\ shWarned' = Unresolved(Matches(shCode), shIncludes)
    /\ shPc' = "createShaderModule"
    /\ UNCHANGED <<shFunction, shCode, shIncludes, shMessages, shLogged, shResult>>

\* device.createShaderModule and await module.getCompilationInfo()
Compile ==
    /\ shPc = "createShaderModule"
    /\ \E messages \in MessageLists :
          /\ ~Compiles(processedCode) => HasError(messages)
          /\ shMessages' = messages
    /\ shPc' = "messages"
    /\ UNCHANGED <<shFunction, shCode, shIncludes, processedCode, shWarned,
                   shLogged, shResult>>

\* createShader of utils.ts: any message is logged, then the throw
CreateShaderReturn ==
    /\ shPc = "messages"
    /\ shFunction = "createShader"
    /\ shLogged' = shMessages
    /\ shResult' = IF Len(shMessages) > 0 THEN "Error" ELSE "module"
    /\ shPc' = "returned"
    /\ UNCHANGED <<shFunction, shCode, shIncludes, processedCode, shWarned,
                   shMessages>>

\* createShaderModule: throws if a message has type "error"
CreateShaderModuleReturn ==
    /\ shPc = "messages"
    /\ shFunction = "createShaderModule"
    /\ shLogged' = shMessages
    /\ shResult' = IF HasError(shMessages) THEN "Error" ELSE "module"
    /\ shPc' = "returned"
    /\ UNCHANGED <<shFunction, shCode, shIncludes, processedCode, shWarned,
                   shMessages>>

ShaderNext ==
    /\ \/ PrependIncludes
       \/ Compile
       \/ CreateShaderReturn
       \/ CreateShaderModuleReturn
    /\ UNCHANGED <<typeVars, layoutVars, chainVars, simVars, fluidVars, wgVars, lifeVars, ppVars,
                   tableVars, structVars, loopVars, inputVars, dispatchVars, canvasVars, accessorVars, renderVars>>

SpecShader == ShaderInit /\ [][ShaderNext]_vars

\* the text names a module the includes do not supply
NamesMissingModule ==
    \E i \in 1..Len(shCode) :
        /\ shCode[i].kind = "import"
        /\ shCode[i].namespace = "includes"
        /\ \/ shIncludes = Undefined
           \/ shCode[i].moduleName \notin DOMAIN ValueOf(shIncludes)

\* C21: when the text has an import statement whose module is not among the
\* includes, include substitution fails with an error: the function never
\* goes on to hand a text to the device.
C21_MissingIncludeFails ==
    (shFunction = "createShader" /\ NamesMissingModule) =>
        shPc = "prependIncludes"

\* C22: shader creation throws exactly when the compilation reports a
\* message of type error; with warnings only it logs them and returns the
\* module.
C22_AbortIffError ==
    shPc = "returned" =>
        /\ shResult = "Error" <=> HasError(shMessages)
        /\ shLogged = shMessages

\* every import statement of the text is supplied
AllSupplied ==
    \A i \in 1..Len(shCode) :
        shCode[i].kind = "import" => Resolves(shCode[i], shIncludes)

\* C28: when the includes supply every module the text names, the text
\* handed to the device has no import statement left: every occurrence of
\* every statement, repeated ones included, is replaced by the source of
\* its module, and every other line is unchanged.
C28_AllImportsReplaced ==
    (shFunction = "createShader" /\ shPc # "prependIncludes" /\ AllSupplied) =>
        /\ Compiles(processedCode)
        /\ processedCode =
              ReplaceAll(ReplaceAll(shCode, Import("includes", "bindings"),
                                    IncludeSource("bindings")),
                         Import("includes", "textures"),
                         IncludeSource("textures"))

(***************************************************************************)
(* The animation loop of the main application.  Timestamps are whole      *)
(* milliseconds; the browser runs a pending frame callback with a         *)
(* timestamp later than the previous one.                                 *)
(***************************************************************************)

\* last timestamp followed
MaxTime == 60

\* rates the loop is run at (index.ts sets 120)
TargetRates == {30, 60, 120}

\* gaps between callbacks, in ms: from a 240 Hz display to a stalled tab
Gaps == {4, 8, 17, 40}

\* a throttle that lets every frame tick
DueAlways(elapsed, fps) == TRUE

\* currentTime - lastFrameTime >= 1000 / uniforms.targetFPS
Due(elapsed, fps) == elapsed * fps >= 1000

LoopInit ==
    /\ targetFPS \in TargetRates
    /\ lastFrameTime = 0
    /\ currentTime = 0
    /\ pendingCallbacks = 1
    /\ executedTicks = <<>>
    /\ skippedFrames = 0
    /\ TypesIdle
    /\ LayoutIdle
    /\ ChainIdle
    /\ SimIdle
    /\ FluidsIdle
    /\ WorkgroupsIdle
    /\ LifeIdle
    /\ PingPongIdle
    /\ TableIdle
    /\ StructsIdle
    /\ ShaderIdle
    /\ InputIdle
    /\ DispatchIdle
    /\ CanvasIdle
    /\ AccessorIdle
    /\ RenderIdle

\* frame(now) with the interval elapsed: timestep(), then the next request
FrameTicks(now) ==
    /\ pendingCallbacks > 0
    /\ now > currentTime
    /\ now <= MaxTime
    /\ Due(now - lastFrameTime, targetFPS)
    /\ executedTicks' = Append(executedTicks,
                               [time |-> now, since |-> lastFrameTime,
                                fps |-> targetFPS])
    /\ lastFrameTime' = now
    /\ currentTime' = now
    /\ pendingCallbacks' = pendingCallbacks - 1 + 1
    /\ UNCHANGED <<targetFPS, skippedFrames>>

\* frame(now) before the interval has elapsed: only the next request
FrameSkips(now) ==
    /\ pendingCallbacks > 0
    /\ now > currentTime
    /\ now <= MaxTime
    /\ ~Due(now - lastFrameTime, targetFPS)
    /\ skippedFrames' = skippedFrames + 1
    /\ currentTime' = now
    /\ pendingCallbacks' = pendingCallbacks - 1 + 1
    /\ UNCHANGED <<targetFPS, lastFrameTime, executedTicks>>

LoopNext ==
    /\ \/ \E gap \in Gaps : FrameTicks(currentTime + gap)
       \/ \E gap \in Gaps : FrameSkips(currentTime + gap)
    /\ UNCHANGED <<typeVars, layoutVars, chainVars, simVars, fluidVars, wgVars, lifeVars, ppVars,
                   tableVars, structVars, shaderVars, inputVars, dispatchVars, canvasVars, accessorVars, renderVars>>

SpecLoop == LoopInit /\ [][LoopNext]_vars

\* C23: a tick is executed only when at least 1000 / targetFPS ms have
\* passed since the last executed tick, and every frame callback, ticking
\* or not, leaves exactly one callback pending.
C23_Throttled ==
    /\ pendingCallbacks = 1
    /\ \A i \in 1..Len(executedTicks) :
          /\ (executedTicks[i].time - executedTicks[i].since)
                 * executedTicks[i].fps >= 1000
          /\ executedTicks[i].since =
                 (IF i = 1 THEN 0 ELSE executedTicks[i - 1].time)

\* at 60 frames per second two ticks have run with a skipped frame between
C23_Witness ==
    /\ targetFPS = 60
    /\ Len(executedTicks) = 2
    /\ skippedFrames > 0
    /\ executedTicks[2].time - executedTicks[1].time >= 17

(***************************************************************************)
(* The pointer handlers of setupInteractions.  A Float32Array element is  *)
(* a number or NaN.                                                       *)
(***************************************************************************)

\* largest brush radius followed, and touch points
MaxBrush == 40
MaxTouches == 2
\* size of the canvas rectangle in CSS pixels, and of the texture
RectSize == 4
TextureSize == 2

\* the default of the size parameter
DefaultSize == 20

Number(v) == [nan |-> FALSE, value |-> v]
NaN == [nan |-> TRUE, value |-> 0]

\* mouse buttons: left, middle, right
Buttons == {0, 1, 2}

\* event.deltaY of a wheel event
WheelDeltas == {-10, 10}

\* Math.floor((position / rect.width) * texture.width)
ToTexture(clientPos) == (clientPos * TextureSize) \div RectSize

InputInit ==
    /\ brushSize = DefaultSize
    /\ sign = 1
    /\ uniformBufferData = <<Number(0), Number(0), Number(0), Number(0)>>
    /\ heldButtons = {}
    /\ touches = 0
    /\ TypesIdle
    /\ LayoutIdle
    /\ ChainIdle
    /\ SimIdle
    /\ FluidsIdle
    /\ WorkgroupsIdle
    /\ LifeIdle
    /\ PingPongIdle
    /\ TableIdle
    /\ StructsIdle
    /\ ShaderIdle
    /\ LoopIdle
    /\ DispatchIdle
    /\ CanvasIdle
    /\ AccessorIdle
    /\ RenderIdle

\* mousemove, and touchmove with a touch point
Move(clientX, clientY) ==
    /\ uniformBufferData' =
          [uniformBufferData EXCEPT ![1] = Number(ToTexture(clientX)),
                                    ![2] = Number(ToTexture(clientY))]
    /\ UNCHANGED <<brushSize, sign, heldButtons, touches>>

\* wheel: size += event.deltaY; uniformBufferData.set([size], 2)
Wheel(deltaY) ==
    /\ brushSize + deltaY \in (0 - MaxBrush)..MaxBrush
    /\ brushSize' = brushSize + deltaY
    /\ uniformBufferData' = [uniformBufferData EXCEPT ![3] = Number(brushSize')]
    /\ UNCHANGED <<sign, heldButtons, touches>>

\* mousedown: sign = 1 - event.button
MouseDown(button) ==
    /\ button \notin heldButtons
    /\ heldButtons' = heldButtons \cup {button}
    /\ sign' = 1 - button
    /\ uniformBufferData' =
          [uniformBufferData EXCEPT ![3] = Number(sign' * brushSize)]
    /\ UNCHANGED <<brushSize, touches>>

\* touchstart: sign = event.touches.length > 1 ? -1 : 1
TouchStart ==
    /\ touches < MaxTouches
    /\ touches' = touches + 1
    /\ sign' = IF touches' > 1 THEN -1 ELSE 1
    /\ uniformBufferData' =
          [uniformBufferData EXCEPT ![3] = Number(sign' * brushSize)]
    /\ UNCHANGED <<brushSize, heldButtons>>

\* mouseup
MouseUp(button) ==
    /\ button \in heldButtons
    /\ heldButtons' = heldButtons \ {button}
    /\ uniformBufferData' = [uniformBufferData EXCEPT ![3] = NaN]
    /\ UNCHANGED <<brushSize, sign, touches>>

\* touchend
TouchEnd ==
    /\ touches > 0
    /\ touches' = touches - 1
    /\ uniformBufferData' = [uniformBufferData EXCEPT ![3] = NaN]
    /\ UNCHANGED <<brushSize, sign, heldButtons>>

InputNext ==
    /\ \/ \E x, y \in 0..(RectSize - 1) : Move(x, y)
       \/ \E deltaY \in WheelDeltas : Wheel(deltaY)
       \/ \E button \in Buttons : MouseDown(button)
       \/ TouchStart
       \/ \E button \in Buttons : MouseUp(button)
       \/ TouchEnd
    /\ UNCHANGED <<typeVars, layoutVars, chainVars, simVars, fluidVars, wgVars, lifeVars, ppVars,
                   tableVars, structVars, shaderVars, loopVars, dispatchVars, canvasVars, accessorVars, renderVars>>

SpecInput == InputInit /\ [][InputNext]_vars

\* what is held: a left click or one touch, a right click or several
\* touches, or nothing
HoldsLeft ==
    \/ heldButtons = {0} /\ touches = 0
    \/ heldButtons = {} /\ touches = 1
HoldsRight ==
    \/ heldButtons = {2} /\ touches = 0
    \/ heldButtons = {} /\ touches > 1
HoldsNothing == heldButtons = {} /\ touches = 0

\* C24: after any sequence of move, wheel, press and release events the
\* size element is positive while a left click or a single touch is held,
\* negative while a right click or several touches are held, and NaN while
\* nothing is held.
C24_BrushEncoding ==
    /\ HoldsLeft => (~uniformBufferData[3].nan /\ uniformBufferData[3].value > 0)
    /\ HoldsRight => (~uniformBufferData[3].nan /\ uniformBufferData[3].value < 0)
    /\ HoldsNothing => uniformBufferData[3].nan

(***************************************************************************)
(* The workgroup counts of the dispatches over the node buffer, in        *)
(* examples/wormlike-chain/index.ts and in unnamed/part_011.              *)
(***************************************************************************)

\* largest node count
MaxNodeCount == 600

WORKGROUP_SIZE == 256

\* Math.ceil(NODE_COUNT / WORKGROUP_SIZE)
WORKGROUP_COUNT_BUFFER == MathCeil(dpNodeCount, WORKGROUP_SIZE)

\* the count passed to dispatchWorkgroups for the line constraint halves
LineConstraintCount ==
    IF dpFile = "part_011" THEN WORKGROUP_SIZE ELSE WORKGROUP_COUNT_BUFFER

DispatchInit ==
    /\ dpFile \in {"index.ts", "part_011"}
    /\ dpNodeCount \in 1..MaxNodeCount
    /\ dpHost = "initialize_chains"
    /\ dpIssued = <<>>
    /\ TypesIdle
    /\ LayoutIdle
    /\ ChainIdle
    /\ SimIdle
    /\ FluidsIdle
    /\ WorkgroupsIdle
    /\ LifeIdle
    /\ PingPongIdle
    /\ TableIdle
    /\ StructsIdle
    /\ ShaderIdle
    /\ LoopIdle
    /\ InputIdle
    /\ CanvasIdle
    /\ AccessorIdle
    /\ RenderIdle

\* a dispatch over the node buffer with the buffer workgroup count
IssueBufferDispatch(kernel, next) ==
    /\ dpHost = kernel
    /\ dpIssued' = Append(dpIssued, [kernel |-> kernel,
                                     workgroups |-> WORKGROUP_COUNT_BUFFER])
    /\ dpHost' = next
    /\ UNCHANGED <<dpFile, dpNodeCount>>

\* [0, 1].forEach: the two line constraint halves
IssueLineConstraints ==
    /\ dpHost = "line_constraint_updates"
    /\ dpIssued' = dpIssued
          \o <<[kernel |-> "line_constraint_updates",
                workgroups |-> LineConstraintCount],
               [kernel |-> "line_constraint_updates",
                workgroups |-> LineConstraintCount]>>
    /\ dpHost' = "curvature_updates"
    /\ UNCHANGED <<dpFile, dpNodeCount>>

DispatchNext ==
    /\ \/ IssueBufferDispatch("initialize_chains", "line_constraint_updates")
       \/ IssueLineConstraints
       \/ IssueBufferDispatch("curvature_updates", "draw")
       \/ IssueBufferDispatch("draw", "frame")
    /\ UNCHANGED <<typeVars, layoutVars, chainVars, simVars, fluidVars, wgVars, lifeVars, ppVars,
                   tableVars, structVars, shaderVars, loopVars, inputVars, canvasVars, accessorVars, renderVars>>

SpecDispatch == DispatchInit /\ [][DispatchNext]_vars

\* C25: every dispatch over the node buffer (initialization, both line
\* constraint halves, curvature update, draw) has workgroup count
\* ceil(node count / 256).
C25_BufferWorkgroupCount ==
    \A i \in 1..Len(dpIssued) :
        /\ dpIssued[i].workgroups * 256 >= dpNodeCount
        /\ (dpIssued[i].workgroups - 1) * 256 < dpNodeCount

(***************************************************************************)
(* Host writes into the canvas uniform buffer of the main application.    *)
(* All writes are 32-bit words at offsets that are multiples of 4, so the *)
(* buffer is kept as words; word w holds bytes 4w to 4w + 3.              *)
(***************************************************************************)

\* calls of writeUniforms followed, largest canvas size, random values
MaxUniformWrites == 2
MaxCanvas == 2
MaxKey == 3

\* struct Canvas of the shaders
CanvasStruct ==
    <<[name |-> "size", type |-> Vec(2, i32)],
      [name |-> "pass_id", type |-> u32],
      [name |-> "key", type |-> Vec(2, u32)]>>

\* the offset the layout rules give field n of a struct
OffsetOf(def, n) == RoundUp(def[n].type.alignment, OffsetAfter(def, n - 1))

FieldIndex(def, name) == CHOOSE n \in 1..Len(def) : def[n].name = name

\* the bytes of a struct that belong to no field
PaddingBytes(def) ==
    {b \in 0..(ByteSizeOf(def) - 1) :
        \A n \in 1..Len(def) :
            b < OffsetOf(def, n) \/ b >= OffsetOf(def, n) + def[n].type.byteSize}

\* DataView.setInt32 / setUint32 (little endian) at a byte offset
SetWord(data, offset, value) == [data EXCEPT ![offset \div 4] = value]

\* byte offsets of the two key writes of writeUniforms
KeyOffsets == <<12, 16>>

CanvasInit ==
    /\ actualSize \in [width : 1..MaxCanvas, height : 1..MaxCanvas]
    /\ canvasData = [w \in 0..5 |-> IF w = 0 THEN actualSize.width
                                    ELSE IF w = 1 THEN actualSize.height ELSE 0]
    /\ canvasBuffer = canvasData
    /\ canvasWrites = {}
    /\ uniformWrites = 0
    /\ TypesIdle
    /\ LayoutIdle
    /\ ChainIdle
    /\ SimIdle
    /\ FluidsIdle
    /\ WorkgroupsIdle
    /\ LifeIdle
    /\ PingPongIdle
    /\ TableIdle
    /\ StructsIdle
    /\ ShaderIdle
    /\ LoopIdle
    /\ InputIdle
    /\ DispatchIdle
    /\ AccessorIdle
    /\ RenderIdle

\* writeUniforms: size, the two random words of the key, writeBuffer
WriteUniforms(key0, key1) ==
    /\ uniformWrites < MaxUniformWrites
    /\ uniformWrites' = uniformWrites + 1
    /\ canvasData' = SetWord(SetWord(SetWord(SetWord(canvasData,
                         0, actualSize.width), 4, actualSize.height),
                         KeyOffsets[1], key0), KeyOffsets[2], key1)
    /\ canvasBuffer' = canvasData'
    /\ canvasWrites' = canvasWrites \cup
          {[field |-> "size", component |-> 0, offset |-> 0],
           [field |-> "size", component |-> 1, offset |-> 4],
           [field |-> "key", component |-> 0, offset |-> KeyOffsets[1]],
           [field |-> "key", component |-> 1, offset |-> KeyOffsets[2]]}
    /\ UNCHANGED actualSize

\* runSimulationStep: writeBuffer(canvasBuffer, 2 * 4, [passId])
WritePassIdWord(passId) ==
    /\ uniformWrites > 0
    /\ canvasBuffer[2] # passId
    /\ canvasBuffer' = SetWord(canvasBuffer, 2 * 4, passId)
    /\ canvasWrites' = canvasWrites \cup
          {[field |-> "pass_id", component |-> 0, offset |-> 2 * 4]}
    /\ UNCHANGED <<actualSize, canvasData, uniformWrites>>

CanvasNext ==
    /\ \/ \E key0, key1 \in 1..MaxKey : WriteUniforms(key0, key1)
       \/ \E passId \in {0, 1} : WritePassIdWord(passId)
    /\ UNCHANGED <<typeVars, layoutVars, chainVars, simVars, fluidVars, wgVars, lifeVars, ppVars,
                   tableVars, structVars, shaderVars, loopVars, inputVars, dispatchVars, accessorVars, renderVars>>

SpecCanvas == CanvasInit /\ [][CanvasNext]_vars

\* C26: every host write lands at the offset the layout rules give the
\* component it targets (size at 0, pass_id at 8, key at 16 and 20), both
\* components of key are written, and no write lands in padding.
C26_CanvasOffsets ==
    /\ OffsetOf(CanvasStruct, FieldIndex(CanvasStruct, "size")) = 0
    /\ OffsetOf(CanvasStruct, FieldIndex(CanvasStruct, "pass_id")) = 8
    /\ OffsetOf(CanvasStruct, FieldIndex(CanvasStruct, "key")) = 16
    /\ \A w \in canvasWrites :
          /\ w.offset = OffsetOf(CanvasStruct, FieldIndex(CanvasStruct, w.field))
                            + 4 * w.component
          /\ w.offset \notin PaddingBytes(CanvasStruct)
    /\ uniformWrites > 0 =>
          \A c \in {0, 1} :
              \E w \in canvasWrites :
                  w.offset = OffsetOf(CanvasStruct,
                                      FieldIndex(CanvasStruct, "key")) + 4 * c

(***************************************************************************)
(* The setter of a matrix or array field of a Struct: one DataView store  *)
(* per component.  The field is the last of the struct, after a first     *)
(* field that is absent, an f32 or a vec3<f32>.                           *)
(***************************************************************************)

MatrixShapes ==
    {[kind |-> "mat", columns |-> c, rows |-> r, count |-> 0] :
        c \in 2..4, r \in 2..4}
ArrayShapes ==
    {[kind |-> "array", columns |-> 0, rows |-> 0, count |-> n] :
        n \in 1..MaxArrayCount}

ArrayElements == ScalarTypes \cup {Vec(n, t) : n \in 2..4, t \in {f32, f16}}

\* the fields that precede the field set
Preceding == {<<>>, <<[name |-> "a", type |-> f32]>>,
              <<[name |-> "a", type |-> Vec(3, f32)]>>}

FieldTypeOf(shape, element) ==
    IF shape.kind = "mat" THEN Mat(shape.columns, shape.rows, element)
    ELSE Array(element, shape.count)

\* setComponent: componentOffset = offset + index * baseTypeSize
ComponentOffset(offset, index, baseTypeSize) ==
    offset + index * baseTypeSize

\* components of one column or element, and its padded stride
PerElement(shape, element) ==
    IF shape.kind = "mat" THEN shape.rows ELSE element.componentCount
Stride(shape, element) ==
    IF shape.kind = "mat"
    THEN RoundUp(Vec(shape.rows, element).alignment,
                 Vec(shape.rows, element).byteSize)
    ELSE RoundUp(element.alignment, element.byteSize)

AccessorInit ==
    /\ \/ acShape \in MatrixShapes /\ acElement \in {f32, f16}
       \/ acShape \in ArrayShapes /\ acElement \in ArrayElements
    /\ acFieldType = FieldTypeOf(acShape, acElement)
    /\ \E before \in Preceding :
          acOffset = RoundUp(acFieldType.alignment,
                             OffsetAfter(before, Len(before)))
    /\ acIndex = 0
    /\ acStores = {}
    /\ TypesIdle
    /\ LayoutIdle
    /\ ChainIdle
    /\ SimIdle
    /\ FluidsIdle
    /\ WorkgroupsIdle
    /\ LifeIdle
    /\ PingPongIdle
    /\ TableIdle
    /\ StructsIdle
    /\ ShaderIdle
    /\ LoopIdle
    /\ InputIdle
    /\ DispatchIdle
    /\ CanvasIdle
    /\ RenderIdle

\* one iteration of the setter: setComponent(i, value[i])
SetComponent ==
    /\ acIndex < acFieldType.componentCount
    /\ acStores' = acStores \cup
          {[index |-> acIndex,
            offset |-> ComponentOffset(acOffset, acIndex,
                                       acFieldType.baseTypeSize)]}
    /\ acIndex' = acIndex + 1
    /\ UNCHANGED <<acShape, acElement, acFieldType, acOffset>>

AccessorNext ==
    /\ SetComponent
    /\ UNCHANGED <<typeVars, layoutVars, chainVars, simVars, fluidVars, wgVars, lifeVars, ppVars,
                   tableVars, structVars, shaderVars, loopVars, inputVars, dispatchVars, canvasVars, renderVars>>

SpecAccessor == AccessorInit /\ [][AccessorNext]_vars

\* C27: the setter stores element (column c, row r) of a matrix field at
\* field offset + c x column stride + r x scalar size, and component k of
\* element i of an array field at field offset + i x element stride
\* + k x scalar size, the strides being the padded strides of the field's
\* byteSize.
C27_ComponentPlacement ==
    /\ acFieldType.byteSize =
          (acFieldType.componentCount \div PerElement(acShape, acElement))
              * Stride(acShape, acElement)
    /\ \A s \in acStores :
          LET e == s.index \div PerElement(acShape, acElement)
              k == s.index % PerElement(acShape, acElement)
          IN s.offset = acOffset + e * Stride(acShape, acElement)
                                 + k * acFieldType.baseTypeSize

(***************************************************************************)
(* The render module (render.ts) as the main application's timestep()     *)
(* drives it: the simulation steps, RenderModule.render, then             *)
(* RenderModule.downSample, each a queue.submit of its own.               *)
(***************************************************************************)

\* ticks of the main loop that are run
MaxRenderTicks == 8

\* largest uniforms.computeStepsPerFrame
MaxStepsPerFrame == 3

\* a texture as device.createTexture returns it: zero-filled, never written
createTexture == [written |-> 0, content |-> 0]

\* what a downsampling pass would store for a source content: a value that
\* differs from the source content and from the zero of a fresh texture
Downsampled(content) == 1000 + content

Pass(kind, pipeline, reads, writes) ==
    [kind |-> kind, pipeline |-> pipeline, reads |-> reads, writes |-> writes]

\* RenderModule.render: the passes its command encoder records
RenderPasses ==
    << Pass("compute", "computeRenderPipeline", {"simulation"},
            {"intermediateTexture"}),
       Pass("render", "renderPipeline", {"intermediateTexture"}, {"canvas"}) >>

\* RenderModule.downSample: the passes its command encoder records
DownSamplePasses ==
    << Pass("render", "downsampleRenderPipeline", {"downsampleTexture"},
            {"downsampleCanvas"}) >>

RenderInit ==
    /\ rnPc = "frame"
    /\ rnTime = 0
    /\ rnState = 0
    /\ intermediateTexture = createTexture
    /\ downsampleTexture = createTexture
    /\ rnCanvas = 0
    /\ rnDownsampleCanvas = [content |-> 0, written |-> 0]
    /\ rnPasses = <<>>
    /\ TypesIdle
    /\ LayoutIdle
    /\ ChainIdle
    /\ SimIdle
    /\ FluidsIdle
    /\ WorkgroupsIdle
    /\ LifeIdle
    /\ PingPongIdle
    /\ TableIdle
    /\ StructsIdle
    /\ ShaderIdle
    /\ LoopIdle
    /\ InputIdle
    /\ DispatchIdle
    /\ CanvasIdle
    /\ AccessorIdle

\* timestep(): time++, the interactions upload, and computeStepsPerFrame
\* calls of runSimulationStep
TimestepSimulate(computeStepsPerFrame) ==
    /\ rnPc = "frame"
    /\ rnTime < MaxRenderTicks
    /\ rnTime' = rnTime + 1
    /\ rnState' = rnState + computeStepsPerFrame
    /\ rnPasses' = <<>>
    /\ rnPc' = "render"
    /\ UNCHANGED <<intermediateTexture, downsampleTexture, rnCanvas,
                   rnDownsampleCanvas>>

\* renderModule.render(canvas.context)
Render ==
    /\ rnPc = "render"
    /\ intermediateTexture' = [written |-> rnTime, content |-> rnState]
    /\ rnCanvas' = rnState
    /\ rnPasses' = rnPasses \o RenderPasses
    /\ rnPc' = "downSample"
    /\ UNCHANGED <<rnTime, rnState, downsampleTexture, rnDownsampleCanvas>>

\* renderModule.downSample(downsampledCanvas.context)
DownSample ==
    /\ rnPc = "downSample"
    /\ rnDownsampleCanvas' = [content |-> downsampleTexture.content,
                              written |-> downsampleTexture.written]
    /\ rnPasses' = rnPasses \o DownSamplePasses
    /\ rnPc' = "update"
    /\ UNCHANGED <<rnTime, rnState, intermediateTexture, downsampleTexture,
                   rnCanvas>>

\* performanceMonitor.update(time); timestep() returns
TimestepReturn ==
    /\ rnPc = "update"
    /\ rnPc' = "frame"
    /\ UNCHANGED <<rnTime, rnState, intermediateTexture, downsampleTexture,
                   rnCanvas, rnDownsampleCanvas, rnPasses>>

RenderNext ==
    /\ \/ \E computeStepsPerFrame \in 1..MaxStepsPerFrame :
             TimestepSimulate(computeStepsPerFrame)
       \/ Render
       \/ DownSample
       \/ TimestepReturn
    /\ UNCHANGED <<typeVars, layoutVars, chainVars, simVars, fluidVars, wgVars,
                   lifeVars, ppVars, tableVars, structVars, shaderVars,
                   loopVars, inputVars, dispatchVars, canvasVars,
                   accessorVars>>

SpecRender == RenderInit /\ [][RenderNext]_vars

\* C30: in every tick of the main application, the downsample texture that
\* RenderModule.downSample draws to the downsample canvas has been written
\* earlier in the same tick by a pass that derives it from the intermediate
\* texture produced by RenderModule.render.
C30_DownsampleDerived ==
    rnPc = "update" =>
        /\ rnDownsampleCanvas.written = rnTime
        /\ rnDownsampleCanvas.content = Downsampled(intermediateTexture.content)
        /\ \E i, j, k \in 1..Len(rnPasses) :
              /\ i < j
              /\ j < k
              /\ "intermediateTexture" \in rnPasses[i].writes
              /\ "intermediateTexture" \in rnPasses[j].reads
              /\ "downsampleTexture" \in rnPasses[j].writes
              /\ "downsampleTexture" \in rnPasses[k].reads
              /\ "downsampleCanvas" \in rnPasses[k].writes
=============================================================================
